---------------------------- MODULE Spec2Model ----------------------------
(***************************************************************************)
(* A model of the hubspot-crawler fetch pipeline (hubspot_crawler/crawler.py *)
(* and the resume logic of hubspot_crawler/cli.py): the block detector,    *)
(* the block-detection coordinator, the worker pool of run(), the writer   *)
(* task and the checkpoint file.                                           *)
(*                                                                         *)
(* Conventions.  Python's None / Optional[T] is modelled as a sequence of  *)
(* length 0 (None) or 1 (the value).  A Python str that the code inspects  *)
(* character by character (exception messages) is a sequence of one-       *)
(* character strings.  A URL is a record of the components urllib.parse    *)
(* splits it into; netloc and path are sequences of tokens.                *)
(***************************************************************************)
EXTENDS Integers, Sequences, FiniteSets, TLC

(***************************************************************************)
(* Strings as character sequences                                          *)
(***************************************************************************)

\* str.lower() on one character
LowerChar(c) ==
    CASE c = "A" -> "a" []
         c = "B" -> "b" []
         c = "C" -> "c" []
         c = "D" -> "d" []
         c = "E" -> "e" []
         c = "F" -> "f" []
         c = "G" -> "g" []
         c = "H" -> "h" []
         c = "I" -> "i" []
         c = "J" -> "j" []
         c = "K" -> "k" []
         c = "L" -> "l" []
         c = "M" -> "m" []
         c = "N" -> "n" []
         c = "O" -> "o" []
         c = "P" -> "p" []
         c = "Q" -> "q" []
         c = "R" -> "r" []
         c = "S" -> "s" []
         c = "T" -> "t" []
         c = "U" -> "u" []
         c = "V" -> "v" []
         c = "W" -> "w" []
         c = "X" -> "x" []
         c = "Y" -> "y" []
         c = "Z" -> "z"
      [] OTHER -> c

\* str.lower()
Lower(s) == [i \in 1..Len(s) |-> LowerChar(s[i])]

\* needle in s   (Python substring test; the empty needle is in every string)
Contains(s, needle) ==
    \E i \in 1..(Len(s) - Len(needle) + 1) :
        SubSeq(s, i, i + Len(needle) - 1) = needle

\* Exception messages used as inputs: str(exception)

\* "Request timeout"
MsgRequestTimeout == <<"R", "e", "q", "u", "e", "s", "t", " ", "t", "i", "m", "e", "o", "u", "t">>

\* "Connection reset by peer"
MsgConnectionReset == <<"C", "o", "n", "n", "e", "c", "t", "i", "o", "n", " ", "r", "e", "s", "e", "t", " ", "b", "y", " ", "p", "e", "e", "r">>

\* "TLS handshake failed"
MsgTlsHandshake == <<"T", "L", "S", " ", "h", "a", "n", "d", "s", "h", "a", "k", "e", " ", "f", "a", "i", "l", "e", "d">>

\* "SSL error"
MsgSslError == <<"S", "S", "L", " ", "e", "r", "r", "o", "r">>

\* "ClientConnectorError"
MsgClientConnector == <<"C", "l", "i", "e", "n", "t", "C", "o", "n", "n", "e", "c", "t", "o", "r", "E", "r", "r", "o", "r">>

\* "ConnectionResetError"
MsgConnResetError == <<"C", "o", "n", "n", "e", "c", "t", "i", "o", "n", "R", "e", "s", "e", "t", "E", "r", "r", "o", "r">>

\* "DNS failed"
MsgDnsFailed == <<"D", "N", "S", " ", "f", "a", "i", "l", "e", "d">>

\* ""
MsgEmpty == <<>>


\* The blocking_errors list of record_attempt

NeedleConnectionReset == <<"c", "o", "n", "n", "e", "c", "t", "i", "o", "n", " ", "r", "e", "s", "e", "t">>

NeedleTls == <<"t", "l", "s">>

NeedleSsl == <<"s", "s", "l">>

NeedleClientConnector == <<"c", "l", "i", "e", "n", "t", "c", "o", "n", "n", "e", "c", "t", "o", "r", "e", "r", "r", "o", "r">>

NeedleConnResetError == <<"c", "o", "n", "n", "e", "c", "t", "i", "o", "n", "r", "e", "s", "e", "t", "e", "r", "r", "o", "r">>

blocking_errors ==
    {NeedleConnectionReset, NeedleTls, NeedleSsl, NeedleClientConnector, NeedleConnResetError}

(***************************************************************************)
(* URLs                                                                    *)
(***************************************************************************)

\* A URL text "scheme://netloc path rest"; scheme "" is a text without
\* "scheme://".  netloc and path are token sequences, rest is the query
\* string and fragment.
Url(scheme, netloc, path, rest) ==
    [scheme |-> scheme, netloc |-> netloc, path |-> path, rest |-> rest]

\* urllib.parse.urlparse(url).netloc : a text without "//" has no netloc
Netloc(url) == IF url.scheme = "" THEN <<>> ELSE url.netloc

\* urllib.parse.urlparse(url).path
Path(url) == IF url.scheme = "" THEN url.netloc \o url.path ELSE url.path

\* "a.com"  (an input line without a scheme)
UrlA == Url("", <<"a.com">>, <<>>, "")
\* "https://a.com/p"
UrlAP == Url("https", <<"a.com">>, <<"/", "p">>, "")
\* "https://a.com/q"
UrlAQ == Url("https", <<"a.com">>, <<"/", "q">>, "")
\* "https://a.com/p "  (a space at the end)
UrlAPs == Url("https", <<"a.com">>, <<"/", "p", " ">>, "")
\* "https://b.com/"
UrlB == Url("https", <<"b.com">>, <<"/">>, "")

normalize_url(url) ==
    IF url.scheme = "" THEN [url EXCEPT !.scheme = "https"] ELSE url

(***************************************************************************)
(* BlockDetector                                                           *)
(***************************************************************************)

\* deque(maxlen=50) of failed_urls_for_retry
RetryMaxLen == 50

\* collections.deque.append on a deque with maxlen
DequeAppendKeepsOldest(q, x, maxlen) ==
    IF Len(q) >= maxlen THEN q ELSE Append(q, x)

DequeAppend(q, x, maxlen) ==
    IF maxlen = 0 THEN q
    ELSE IF Len(q) >= maxlen THEN Append(Tail(q), x)
    ELSE Append(q, x)

\* The is_blocking classification of record_attempt
IsBlockingByStatusOnly(success, status_code, exception) ==
    ~success /\ status_code \in {<<403>>, <<429>>}

IsBlocking(success, status_code, exception) ==
    IF success THEN FALSE
    ELSE IF status_code \in {<<403>>, <<429>>} THEN TRUE
    ELSE IF exception # <<>>
         THEN LET error_msg == Lower(exception[1])
              IN  \E err \in blocking_errors : Contains(error_msg, err)
    ELSE FALSE

\* BlockDetector.__init__
BlockDetector(threshold, window_size) ==
    [threshold |-> threshold, window_size |-> window_size,
     recent_attempts |-> <<>>, failed_urls_for_retry |-> <<>>]

\* BlockDetector.record_attempt: the detector after the call.  The
\* time.time() stamp of a window entry is never read and is left out.
RecordAttemptUnboundedWindow(self, url, success, status_code, exception) ==
    LET is_blocking == IsBlocking(success, status_code, exception)
        entry == [url |-> url, domain |-> Netloc(url), is_blocking |-> is_blocking]
    IN  [self EXCEPT
            !.recent_attempts = Append(@, entry),
            !.failed_urls_for_retry =
                IF ~success /\ is_blocking
                THEN DequeAppend(@, url, RetryMaxLen)
                ELSE @]

record_attempt(self, url, success, status_code, exception) ==
    LET is_blocking == IsBlocking(success, status_code, exception)
        entry == [url |-> url, domain |-> Netloc(url), is_blocking |-> is_blocking]
    IN  [self EXCEPT
            !.recent_attempts = DequeAppend(@, entry, self.window_size),
            !.failed_urls_for_retry =
                IF ~success /\ is_blocking
                THEN DequeAppend(@, url, RetryMaxLen)
                ELSE @]

\* [(url, domain) for url, domain, is_blocking, _ in s if is_blocking]
RECURSIVE SelectBlocking(_)
SelectBlocking(s) ==
    IF s = <<>> THEN <<>>
    ELSE IF Head(s).is_blocking
         THEN <<Head(s)>> \o SelectBlocking(Tail(s))
         ELSE SelectBlocking(Tail(s))

\* s[-n:]  (Python slice; s[-0:] is the whole list)
LastN(s, n) ==
    IF n = 0 \/ n >= Len(s) THEN s ELSE SubSeq(s, Len(s) - n + 1, Len(s))

Max(a, b) == IF a >= b THEN a ELSE b

\* The stats dict of is_likely_blocked ({} when below the threshold).
\* blocking_rate is kept as the pair it is the quotient of
\* (blocking_failures, max(total_attempts, 1)); affected_domains is kept as
\* the set it lists.
NoStats == [empty |-> TRUE]

Stats(blocking_failures, total_in_window, unique_domains, retry_queue_size) ==
    [empty |-> FALSE,
     blocking_failures |-> blocking_failures,
     total_attempts |-> total_in_window,
     unique_domains |-> Cardinality(unique_domains),
     affected_domains |-> unique_domains,
     retry_queue_size |-> retry_queue_size]

\* The decision of is_likely_blocked from its three numbers.  The float
\* comparison blocking / max(total, 1) >= 0.6 is evaluated exactly, as
\* 10 * blocking >= 6 * max(total, 1).
BlockedDecisionStrictRate(n_blocking, n_domains, total_in_window, threshold) ==
    /\ n_blocking >= threshold
    /\ n_domains >= 2
    /\ 10 * n_blocking > 6 * Max(total_in_window, 1)

BlockedDecision(n_blocking, n_domains, total_in_window, threshold) ==
    /\ n_blocking >= threshold
    /\ n_domains >= 2
    /\ 10 * n_blocking >= 6 * Max(total_in_window, 1)

\* blocking_failures[-self.threshold:]
RecentBlocking(blocking_failures, threshold) == LastN(blocking_failures, threshold)

\* BlockDetector.is_likely_blocked -> (is_blocked, stats)
is_likely_blocked(self) ==
    LET blocking_failures == SelectBlocking(self.recent_attempts)
        recent_blocking == RecentBlocking(blocking_failures, self.threshold)
        unique_domains == {recent_blocking[i].domain : i \in DOMAIN recent_blocking}
        total_in_window == Len(self.recent_attempts)
    IN  IF Len(blocking_failures) < self.threshold
        THEN [is_blocked |-> FALSE, stats |-> NoStats]
        ELSE [is_blocked |-> BlockedDecision(Len(blocking_failures),
                                             Cardinality(unique_domains),
                                             total_in_window, self.threshold),
              stats |-> Stats(Len(blocking_failures), total_in_window,
                              unique_domains, Len(self.failed_urls_for_retry))]

\* BlockDetector.get_retry_urls
get_retry_urls(self) == self.failed_urls_for_retry

\* BlockDetector.reset: the detector after the call
ResetClearsBoth(self) ==
    [self EXCEPT !.recent_attempts = <<>>, !.failed_urls_for_retry = <<>>]

reset(self) == [self EXCEPT !.recent_attempts = <<>>]

(***************************************************************************)
(* URL text and URL variations                                             *)
(***************************************************************************)

\* The characters of one URL token
TokenChars(tok) ==
    CASE tok = "https" -> <<"h", "t", "t", "p", "s">> []
         tok = "http" -> <<"h", "t", "t", "p">> []
         tok = "www." -> <<"w", "w", "w", ".">> []
         tok = "a.com" -> <<"a", ".", "c", "o", "m">> []
         tok = "b.com" -> <<"b", ".", "c", "o", "m">> []
         tok = "/" -> <<"/">> []
         tok = "p" -> <<"p">> []
         tok = "q" -> <<"q">> []
         tok = "u@" -> <<"u", "@">> []
         tok = ":8" -> <<":", "8">> []
         tok = " " -> <<" ">>
      [] OTHER -> <<>>

RECURSIVE TokensChars(_)
TokensChars(toks) ==
    IF toks = <<>> THEN <<>>
    ELSE TokenChars(Head(toks)) \o TokensChars(Tail(toks))

\* The text of a URL, as a character sequence
UrlText(url) ==
    (IF url.scheme = "" THEN <<>> ELSE TokenChars(url.scheme) \o <<":", "/", "/">>)
    \o TokensChars(url.netloc) \o TokensChars(url.path)

\* path.rstrip('/')
RECURSIVE RStripSlash(_)
RStripSlash(path) ==
    IF path # <<>> /\ path[Len(path)] = "/"
    THEN RStripSlash(SubSeq(path, 1, Len(path) - 1))
    ELSE path

\* path.endswith('/')
EndsWithSlash(path) == path # <<>> /\ path[Len(path)] = "/"

\* Remove duplicates while preserving order, dropping the original URL
RECURSIVE UniqueVariations(_, _, _)
UniqueVariations(variations, seen, url) ==
    IF variations = <<>> THEN <<>>
    ELSE LET v == Head(variations)
         IN  IF v \notin seen /\ v # url
             THEN <<v>> \o UniqueVariations(Tail(variations), seen \cup {v}, url)
             ELSE UniqueVariations(Tail(variations), seen, url)

\* s[:n]
FirstNOffByOne(s, n) == IF n + 1 >= Len(s) THEN s ELSE SubSeq(s, 1, n + 1)

FirstN(s, n) == IF n >= Len(s) THEN s ELSE SubSeq(s, 1, n)

\* generate_url_variations(url, max_variations); url has a scheme (it is
\* called on normalized URLs only)
generate_url_variations(url, max_variations) ==
    LET netloc == Netloc(url)
        path == Path(url)
        v1 == IF netloc # <<>> /\ Head(netloc) = "www."
              THEN <<[url EXCEPT !.netloc = Tail(netloc)]>>
              ELSE <<[url EXCEPT !.netloc = <<"www.">> \o netloc]>>
        opposite_scheme == IF url.scheme = "https" THEN "http" ELSE "https"
        v2 == <<[url EXCEPT !.scheme = opposite_scheme]>>
        v3 == IF ~EndsWithSlash(path)
              THEN <<[url EXCEPT !.path = Append(path, "/")]>>
              ELSE <<>>
        v4 == IF EndsWithSlash(path) /\ path # <<"/">>
              THEN <<[url EXCEPT !.path = RStripSlash(path)]>>
              ELSE <<>>
    IN  FirstN(UniqueVariations(v1 \o v2 \o v3 \o v4, {}, url), max_variations)

(***************************************************************************)
(* Fetch outcomes                                                          *)
(***************************************************************************)

\* "Failed to fetch "
PrefixFailed == <<"F", "a", "i", "l", "e", "d", " ", "t", "o", " ", "f", "e", "t", "c", "h", " ">>
\* ": HTTP error fetching "
PrefixHttpError == <<":", " ", "H", "T", "T", "P", " ", "e", "r", "r", "o", "r", " ", "f", "e", "t", "c", "h", "i", "n", "g", " ">>
\* "429 Too Many Requests"
MsgTooManyRequests == <<"4", "2", "9", " ", "T", "o", "o", " ", "M", "a", "n", "y", " ", "R", "e", "q", "u", "e", "s", "t", "s">>
\* "403 Forbidden"
MsgForbidden == <<"4", "0", "3", " ", "F", "o", "r", "b", "i", "d", "d", "e", "n">>

\* str() of the RuntimeError process_url raises for a network error e of
\* fetch_html: "Failed to fetch {url}: HTTP error fetching {url}: {e}"
FetchErrorText(url, e) ==
    PrefixFailed \o UrlText(url) \o PrefixHttpError \o UrlText(url)
        \o <<":", " ">> \o e

\* The classifier needles of try_url_with_retries
Needle429 == <<"4", "2", "9">>
NeedleTooMany == <<"t", "o", "o", " ", "m", "a", "n", "y", " ", "r", "e", "q", "u", "e", "s", "t", "s">>
Needle403 == <<"4", "0", "3">>
NeedleForbidden == <<"f", "o", "r", "b", "i", "d", "d", "e", "n">>
transient_needles ==
    {<<"t", "i", "m", "e", "o", "u", "t">>, <<"c", "o", "n", "n", "e", "c", "t", "i", "o", "n">>, <<"n", "e", "t", "w", "o", "r", "k">>, <<"d", "n", "s">>, <<"5">>}

\* The classification of an exception by try_url_with_retries
ClassifyForbiddenFirst(exception) ==
    LET error_msg == Lower(exception)
    IN  IF Contains(error_msg, Needle403) \/ Contains(error_msg, NeedleForbidden)
        THEN "forbidden"
        ELSE IF Contains(error_msg, Needle429) \/ Contains(error_msg, NeedleTooMany)
        THEN "rate_limited"
        ELSE IF \E x \in transient_needles : Contains(error_msg, x)
        THEN "transient"
        ELSE "other"

Classify(exception) ==
    LET error_msg == Lower(exception)
    IN  IF Contains(error_msg, Needle429) \/ Contains(error_msg, NeedleTooMany)
        THEN "rate_limited"
        ELSE IF Contains(error_msg, Needle403) \/ Contains(error_msg, NeedleForbidden)
        THEN "forbidden"
        ELSE IF \E x \in transient_needles : Contains(error_msg, x)
        THEN "transient"
        ELSE "other"

(***************************************************************************)
(* State                                                                   *)
(***************************************************************************)

VARIABLES
    \* command line (cli.main)
    args,               \* the parsed arguments: the run() parameters and the URL list
    phase,              \* "main" | "running" | "returned" | "done" | "raised" | "cancelling" | "exited"
    exit_code,          \* the code of the SystemExit raised: the exit status once phase is "exited"
    ckpt_file,          \* the lines of the checkpoint file, in append order
    \* run()
    urls,               \* the list handed to run()
    wk,                 \* per worker task: its position and locals
    sem,                \* asyncio.Semaphore(concurrency): its value
    domain_semaphores,  \* netloc -> value of its asyncio.Semaphore
    pause_event,        \* asyncio.Event: set (TRUE) or cleared (FALSE)
    result_queue,       \* asyncio.Queue(maxsize=concurrency * 2)
    detector_queue,     \* asyncio.Queue() of attempt reports
    progress_lock,      \* asyncio.Lock: <<>> when free, <<w>> when held by w
    tracker,            \* ProgressTracker counters
    orch,               \* position of run() itself
    \* block_detection_coordinator
    coord,              \* "off" | "get" | "prompt" | "done" | "crashed"
    block_detector,     \* the BlockDetector object
    \* writer_worker
    writer,             \* "running" | "done" | "failed" | "cancelled"
    written,            \* the records written to the output, in order
    failure_queue,      \* asyncio.Queue(maxsize=concurrency * 2), with --failures
    failure_writer,     \* "none" | "running" | "done" | "failed" | "cancelled"
    failures_written,   \* the records written to the failures file, in order
    put_log,            \* history: the records put on result_queue in this run
    ckpt_base,          \* lines in the checkpoint file when run() opened it
    \* detector call sequences
    last_call,          \* <<>> or <<the arguments of the record_attempt call just made>>
    is_blocked_ret,     \* <<>> or <<the return value of the is_likely_blocked call just made>>
    n_recorded,         \* number of record_attempt calls made
    \* single calls of the detector functions, process_url and
    \* generate_url_variations
    frame               \* the call: its function, arguments and <<>> or <<its return value>>

vars == <<args, phase, exit_code, ckpt_file, urls, wk, sem, domain_semaphores,
          pause_event, result_queue, detector_queue, progress_lock, tracker,
          orch, coord, block_detector, writer, written, failure_queue,
          failure_writer, failures_written, put_log,
          ckpt_base, last_call, is_blocked_ret, n_recorded, frame>>

cliVars == <<args, phase, exit_code, ckpt_file>>

runVars == <<urls, wk, sem, domain_semaphores, pause_event, result_queue,
             detector_queue, progress_lock, tracker, orch, coord, writer,
             written, failure_queue, failure_writer, failures_written,
             put_log, ckpt_base>>

callVars == <<last_call, is_blocked_ret, n_recorded, frame>>

(***************************************************************************)
(* The detector alone: sequences of record_attempt, is_likely_blocked and   *)
(* reset calls on one BlockDetector                                        *)
(***************************************************************************)

\* URLs handed to record_attempt: two on one domain, one on another
CallUrls == {normalize_url(UrlA), UrlAP, UrlB}

CallStatusCodes == {<<>>, <<200>>, <<403>>, <<429>>, <<404>>, <<500>>}

CallExceptions ==
    {<<>>, <<MsgRequestTimeout>>, <<MsgConnectionReset>>, <<MsgTlsHandshake>>,
     <<MsgSslError>>, <<MsgClientConnector>>, <<MsgConnResetError>>,
     <<MsgDnsFailed>>, <<MsgEmpty>>,
     <<FetchErrorText(UrlB, MsgRequestTimeout)>>,
     <<FetchErrorText(UrlB, MsgConnectionReset)>>}

\* Every combination of arguments
AllCalls ==
    [url : CallUrls, success : BOOLEAN, status_code : CallStatusCodes,
     exception : CallExceptions]

\* One argument combination per kind of window entry: a success, a blocking
\* failure, a failure that is not blocking
WindowCalls ==
    [url : CallUrls, success : {TRUE}, status_code : {<<200>>}, exception : {<<>>}]
    \cup [url : CallUrls, success : {FALSE}, status_code : {<<403>>}, exception : {<<>>}]
    \cup [url : CallUrls, success : {FALSE}, status_code : {<<>>},
          exception : {<<MsgRequestTimeout>>}]

\* (threshold, window_size) of the detectors explored
DetectorConfigs == {<<1, 1>>, <<2, 1>>, <<3, 2>>, <<2, 3>>, <<3, 5>>}

\* Longest sequence of record_attempt calls explored
MaxRecorded == 5

NoArgs == [none |-> TRUE]

NoFrame == [fn |-> "none"]

InitDetector ==
    /\ \E c \in DetectorConfigs : block_detector = BlockDetector(c[1], c[2])
    /\ last_call = <<>>
    /\ is_blocked_ret = <<>>
    /\ n_recorded = 0
    /\ frame = NoFrame
    /\ args = NoArgs
    /\ phase = "detector"
    /\ exit_code = <<>>
    /\ ckpt_file = <<>>
    /\ urls = <<>>
    /\ wk = <<>>
    /\ sem = 0
    /\ domain_semaphores = <<>>
    /\ pause_event = TRUE
    /\ result_queue = <<>>
    /\ detector_queue = <<>>
    /\ progress_lock = <<>>
    /\ tracker = [completed |-> 0, success_count |-> 0, failure_count |-> 0]
    /\ orch = "none"
    /\ coord = "off"
    /\ writer = "none"
    /\ written = <<>>
    /\ failure_queue = <<>>
    /\ failure_writer = "none"
    /\ failures_written = <<>>
    /\ put_log = <<>>
    /\ ckpt_base = 0

CallRecordAttempt(call) ==
    /\ n_recorded < MaxRecorded
    /\ block_detector' = record_attempt(block_detector, call.url, call.success,
                                        call.status_code, call.exception)
    /\ n_recorded' = n_recorded + 1
    /\ last_call' = <<[call |-> call, before |-> block_detector]>>
    /\ is_blocked_ret' = <<>>
    /\ UNCHANGED <<cliVars, runVars, frame>>

CallIsLikelyBlocked ==
    /\ is_blocked_ret' = <<is_likely_blocked(block_detector)>>
    /\ last_call' = <<>>
    /\ UNCHANGED <<cliVars, runVars, block_detector, n_recorded, frame>>

CallReset ==
    /\ block_detector' = reset(block_detector)
    /\ last_call' = <<>>
    /\ is_blocked_ret' = <<>>
    /\ UNCHANGED <<cliVars, runVars, n_recorded, frame>>

\* Window behaviour: long call sequences over the kinds of entry
NextDetector ==
    \/ \E call \in WindowCalls : CallRecordAttempt(call)
    \/ CallIsLikelyBlocked
    \/ CallReset

SpecDetector == InitDetector /\ [][NextDetector]_vars

\* Classification: every argument combination, on short call sequences
MaxClassified == 1

NextClassify ==
    \/ \E call \in AllCalls : n_recorded < MaxClassified /\ CallRecordAttempt(call)
    \/ CallIsLikelyBlocked
    \/ CallReset

SpecClassify == InitDetector /\ [][NextClassify]_vars

(***************************************************************************)
(* run(): the worker tasks                                                 *)
(*                                                                         *)
(* asyncio runs the tasks on one thread; a task runs without interruption  *)
(* from one suspension to the next, so each action below is the code       *)
(* between two suspensions.  Acquiring a free Semaphore or Lock, putting   *)
(* on a Queue with room and getting from a non-empty Queue do not suspend; *)
(* asyncio.sleep, asyncio.to_thread, asyncio.wait_for and the fetch do.    *)
(* wk[w].pc names the await at which worker w is suspended.                *)
(***************************************************************************)

Workers == DOMAIN urls

\* The event loop runs the worker tasks: during run(), and while
\* asyncio.run() waits for the tasks it has cancelled after a SystemExit
LoopRuns == phase \in {"running", "cancelling"}

\* result_queue = asyncio.Queue(maxsize=concurrency * 2)
QueueFull(queue) == Len(queue) >= args.concurrency * 2

\* The poison pill (None) of a queue
Pill == [kind |-> "None"]

\* variations = generate_url_variations(normalized, max_variations), when enabled
Variations(u) ==
    IF args.try_variations
    THEN generate_url_variations(normalize_url(u), args.max_variations)
    ELSE <<>>

\* The url_to_try of the driver invocation worker w is in
UrlToTryLastFirst(u, vi) ==
    IF vi = 0 THEN normalize_url(u) ELSE Variations(u)[Len(Variations(u)) + 1 - vi]

UrlToTry(u, vi) == IF vi = 0 THEN normalize_url(u) ELSE Variations(u)[vi]

\* What the network does in a scenario.  args.statuses are the HTTP statuses
\* a fetch can answer with (fetch_html returns 4xx and 5xx responses, it does
\* not raise them); args.faults are the texts of the exceptions a driver
\* attempt can end with: a network error raised through process_url, or the
\* empty text of the asyncio.TimeoutError of the 30 s outer deadline
FetchStatuses == args.statuses

FetchExceptions(url) ==
    {FetchErrorText(url, m) : m \in args.faults \ {MsgEmpty}}
        \cup (args.faults \cap {MsgEmpty})

\* fetch_html: str(r.url), the URL the GET ends on after following redirects
FetchLandings(url) == {url} \cup args.redirects

\* make_result as process_url calls it: the record of one answered fetch
\* (of its keys, those the pipeline reads)
make_result(original_url, final_url, http_status) ==
    [kind |-> "result", original_url |-> original_url,
     final_url |-> final_url, http_status |-> http_status]

\* process_url: the result record of a fetch of url that ended on landed
\* with status.  fetched and response_url record what fetch_html was given
\* and what it returned.
ResultKeepsLanding(original_url, url, status, landed) ==
    make_result(original_url, landed, status)
        @@ [fetched |-> url, response_url |-> landed]

Result(original_url, url, status, landed) ==
    LET final_url == IF status >= 400 THEN original_url ELSE landed
    IN  make_result(original_url, final_url, status)
            @@ [fetched |-> url, response_url |-> landed]

\* The failure record ("err") of worker()
FailureRecord(u) ==
    [kind |-> "failure", original_url |-> u, final_url |-> u,
     attempts |-> args.max_retries,
     attempted_urls |-> <<normalize_url(u)>> \o Variations(u)]

\* The variables a worker step can change, as one record
Now ==
    [wk |-> wk, rq |-> result_queue, dq |-> detector_queue,
     lock |-> progress_lock, sem |-> sem, phase |-> phase,
     tracker |-> tracker, ds |-> domain_semaphores, fq |-> failure_queue]

Commit(s) ==
    /\ wk' = s.wk
    /\ result_queue' = s.rq
    /\ put_log' = put_log \o SubSeq(s.rq, Len(result_queue) + 1, Len(s.rq))
    /\ detector_queue' = s.dq
    /\ progress_lock' = s.lock
    /\ sem' = s.sem
    /\ phase' = s.phase
    /\ tracker' = s.tracker
    /\ domain_semaphores' = s.ds
    /\ failure_queue' = s.fq

\* The positions of the three pause waits:
\* await asyncio.wait_for(pause_event.wait(), timeout=300)
PauseWaits == {"pause1", "retry_pause", "var_pause"}

\* slept records the asyncio.sleep calls of the retry loop, in order
NoLocals == [vi |-> 0, attempt |-> 0, last_status_code |-> <<>>,
             last_exception |-> <<>>, result |-> <<>>, slept |-> <<>>]

At(pc) == [pc |-> pc] @@ NoLocals

\* worker() returns: "async with sem" releases the global counter
FinishReleasesTwice(s, w) == [s EXCEPT !.wk[w] = At("done"), !.sem = @ + 2]

Finish(s, w) == [s EXCEPT !.wk[w] = At("done"), !.sem = @ + 1]

\* An exception leaves worker(): the counter is released, gather() re-raises
\* it in run(), which unwinds (when run() has not been cancelled)
Raise(s, w) ==
    [s EXCEPT !.wk[w] = At("raised"), !.sem = @ + 1,
              !.phase = IF @ = "cancelling" THEN @ ELSE "raised"]

\* CancelledError leaves worker(): the counter is released
Cancelled(s, w) == [s EXCEPT !.wk[w] = At("cancelled"), !.sem = @ + 1]

\* check_writer_health()  (crawler.py 894-903)
WriterHealthy == writer # "failed" /\ failure_writer # "failed"

\* check_writer_health() on a writer task that has been cancelled:
\* writer_task.exception() raises CancelledError.  The result writer is
\* inspected first
WriterCancelled ==
    \/ writer = "cancelled"
    \/ writer # "failed" /\ failure_writer = "cancelled"

\* if failure_queue: check_writer_health(); await failure_queue.put(err)
\* (crawler.py 1206-1208), then worker() returns
FailureCopySkipped(s, w) == Finish(s, w)

FailureCopy(s, w) ==
    IF ~args.failures THEN Finish(s, w)
    ELSE IF WriterCancelled THEN Cancelled(s, w)
    ELSE IF ~WriterHealthy THEN Raise(s, w)
    ELSE IF QueueFull(s.fq) THEN [s EXCEPT !.wk[w].pc = "fail_copy_blocked"]
    ELSE Finish([s EXCEPT !.fq = Append(@, FailureRecord(urls[w]))], w)

\* await result_queue.put(err)  (crawler.py 1204), then the copy
FailPutSkipped(s, w) == Finish(s, w)

FailPut(s, w) ==
    IF QueueFull(s.rq)
    THEN [s EXCEPT !.wk[w].pc = "fail_put_blocked"]
    ELSE FailureCopy([s EXCEPT !.rq = Append(@, FailureRecord(urls[w]))], w)

\* async with progress_lock: count the failure  (crawler.py 1159-1170)
FailCounted(s, w) ==
    FailPut([s EXCEPT !.tracker.completed = @ + 1,
                      !.tracker.failure_count = @ + 1], w)

FailurePath(s, w) ==
    IF s.lock = <<>> THEN FailCounted(s, w)
    ELSE [s EXCEPT !.wk[w].pc = "fail_lock_wait"]

\* Inside "async with progress_lock" on success: count it, then start the
\* checkpoint write in a thread  (crawler.py 1083-1102 and 1137-1156)
LockedSuccessWithoutLock(s, w) ==
    LET s1 == [s EXCEPT !.tracker.completed = @ + 1,
                        !.tracker.success_count = @ + 1]
    IN  IF args.checkpoint
        THEN [s1 EXCEPT !.wk[w].pc = "ckpt_write"]
        ELSE Finish(s1, w)

LockedSuccess(s, w) ==
    LET s1 == [s EXCEPT !.tracker.completed = @ + 1,
                        !.tracker.success_count = @ + 1]
    IN  IF args.checkpoint
        THEN [s1 EXCEPT !.lock = <<w>>, !.wk[w].pc = "ckpt_write"]
        ELSE Finish(s1, w)

AfterPut(s, w) ==
    IF s.lock = <<>> THEN LockedSuccess(s, w)
    ELSE [s EXCEPT !.wk[w].pc = "lock_wait"]

\* check_writer_health(); await result_queue.put(result)
CheckpointWithoutPut(s, w, result) == AfterPut(s, w)

SuccessPut(s, w, result) ==
    IF WriterCancelled THEN Cancelled(s, w)
    ELSE IF ~WriterHealthy THEN Raise(s, w)
    ELSE IF QueueFull(s.rq)
    THEN [s EXCEPT !.wk[w].pc = "put_blocked", !.wk[w].result = <<result>>]
    ELSE AfterPut([s EXCEPT !.rq = Append(@, result), !.wk[w].result = <<>>], w)

\* The attempt report worker() puts on detector_queue
Report(url, result, status_code, exception) ==
    [kind |-> "report", url |-> url, success |-> result # <<>>,
     status_code |-> status_code, exception |-> exception]

\* try_url_with_retries has returned (result, status_code, exception) to
\* worker(): report the attempt, then post the result, go on to the next
\* variation, or take the failure path
DriverReturnedQueueOfOne(s, w, result, status_code, exception) ==
    LET u == urls[w]
        vi == s.wk[w].vi
        s1 == IF args.block_detection /\ s.dq = <<>>
              THEN [s EXCEPT !.dq = Append(@, Report(UrlToTry(u, vi), result,
                                                     status_code, exception))]
              ELSE s
    IN  IF result # <<>> THEN SuccessPut(s1, w, result[1])
        ELSE IF args.try_variations /\ vi < Len(Variations(u))
        THEN [s1 EXCEPT !.wk[w] = [At("var_pause") EXCEPT !.vi = vi + 1]]
        ELSE FailurePath(s1, w)

DriverReturned(s, w, result, status_code, exception) ==
    LET u == urls[w]
        vi == s.wk[w].vi
        s1 == IF args.block_detection
              THEN [s EXCEPT !.dq = Append(@, Report(UrlToTry(u, vi), result,
                                                     status_code, exception))]
              ELSE s
    IN  IF result # <<>> THEN SuccessPut(s1, w, result[1])
        ELSE IF args.try_variations /\ vi < Len(Variations(u))
        THEN [s1 EXCEPT !.wk[w] = [At("var_pause") EXCEPT !.vi = vi + 1]]
        ELSE FailurePath(s1, w)

\* get_domain_semaphore(url): the registry after the call
SemaphoreValueOneMore(max_per_domain) == max_per_domain + 1

SemaphoreValue(max_per_domain) == max_per_domain

get_domain_semaphore(ds, url) ==
    LET domain == Netloc(url)
    IN  IF domain \in DOMAIN ds THEN ds
        ELSE [d \in DOMAIN ds \cup {domain} |->
                 IF d = domain THEN SemaphoreValue(args.max_per_domain) ELSE ds[d]]

\* worker() calls try_url_with_retries(url_to_try, u) for attempt list entry vi
StartDriver(s, w, vi) ==
    LET s1 == [s EXCEPT !.ds = get_domain_semaphore(@, UrlToTry(urls[w], vi)),
                        !.wk[w] = [At("retry_pause") EXCEPT !.vi = vi]]
    IN  IF args.max_retries = 0
        THEN DriverReturned(s1, w, <<>>, <<>>, <<>>)
        ELSE s1

workerFrame == <<args, exit_code, urls, orch, coord, block_detector, writer,
                 written, failure_writer, failures_written, ckpt_base,
                 callVars>>

\* "async with sem": take the global counter, then wait on the pause signal
WorkerStart(w) ==
    /\ LoopRuns /\ wk[w].pc = "start"
    /\ sem > 0
    /\ Commit([Now EXCEPT !.sem = @ - 1, !.wk[w].pc = "pause1"])
    /\ UNCHANGED <<workerFrame, pause_event, ckpt_file>>

\* The pause wait on entry returns (crawler.py 1056-1066)
PauseEntry(w) ==
    /\ LoopRuns /\ wk[w].pc = "pause1"
    /\ pause_event
    /\ Commit(StartDriver(Now, w, 0))
    /\ UNCHANGED <<workerFrame, pause_event, ckpt_file>>

\* ... or times out after 300 s with the signal still cleared
PauseEntryTimeout(w) ==
    /\ LoopRuns /\ wk[w].pc = "pause1"
    /\ ~pause_event
    /\ Commit(StartDriver(Now, w, 0))
    /\ UNCHANGED <<workerFrame, pause_event, ckpt_file>>

\* The pause wait of the retry loop returns; apply_request_delay() sleeps
\* (crawler.py 988-998)
RetryPause(w) ==
    /\ LoopRuns /\ wk[w].pc = "retry_pause"
    /\ pause_event
    /\ Commit([Now EXCEPT !.wk[w].pc = "delay"])
    /\ UNCHANGED <<workerFrame, pause_event, ckpt_file>>

\* ... or times out: the except clause sets the signal (crawler.py 992-994)
RetryPauseTimeout(w) ==
    /\ LoopRuns /\ wk[w].pc = "retry_pause"
    /\ ~pause_event
    /\ pause_event' = TRUE
    /\ Commit([Now EXCEPT !.wk[w].pc = "delay"])
    /\ UNCHANGED <<workerFrame, ckpt_file>>

\* "async with domain_sem": a free gate is taken without suspending
GateFree(ds, domain) == ds[domain] > 0

\* The pacing sleep ends; take the domain gate or wait for it (crawler.py 1001)
Delay(w) ==
    /\ LoopRuns /\ wk[w].pc = "delay"
    /\ LET domain == Netloc(UrlToTry(urls[w], wk[w].vi))
       IN  IF GateFree(domain_semaphores, domain)
           THEN Commit([Now EXCEPT !.ds[domain] = @ - 1, !.wk[w].pc = "fetch"])
           ELSE Commit([Now EXCEPT !.wk[w].pc = "acquire"])
    /\ UNCHANGED <<workerFrame, pause_event, ckpt_file>>

\* A waiter on the domain gate gets it
DomainAcquire(w) ==
    /\ LoopRuns /\ wk[w].pc = "acquire"
    /\ LET domain == Netloc(UrlToTry(urls[w], wk[w].vi))
       IN  /\ GateFree(domain_semaphores, domain)
           /\ Commit([Now EXCEPT !.ds[domain] = @ - 1, !.wk[w].pc = "fetch"])
    /\ UNCHANGED <<workerFrame, pause_event, ckpt_file>>

\* Leaving "async with domain_sem"
GateKeptAfterFetch(s, w) == s

GateReleased(s, w) ==
    [s EXCEPT !.ds[Netloc(UrlToTry(urls[w], s.wk[w].vi))] = @ + 1]

\* process_url returns a result (crawler.py 1004-1010)
FetchOkRaisesForStatus(w, status, landed) ==
    /\ LoopRuns /\ wk[w].pc = "fetch"
    /\ LET url == UrlToTry(urls[w], wk[w].vi)
       IN  IF status >= 400
           THEN Commit(DriverReturned(GateReleased(Now, w), w, <<>>, <<status>>, <<>>))
           ELSE Commit(DriverReturned(GateReleased(Now, w), w,
                                      <<Result(urls[w], url, status, landed)>>,
                                      <<status>>, <<>>))
    /\ UNCHANGED <<workerFrame, pause_event, ckpt_file>>

FetchOk(w, status, landed) ==
    /\ LoopRuns /\ wk[w].pc = "fetch"
    /\ LET url == UrlToTry(urls[w], wk[w].vi)
       IN  Commit(DriverReturned(GateReleased(Now, w), w,
                                 <<Result(urls[w], url, status, landed)>>, <<status>>, <<>>))
    /\ UNCHANGED <<workerFrame, pause_event, ckpt_file>>

\* backoff = 5 * (3 ** attempt)  (crawler.py 1037)
BackoffDoubling(attempt) == 5 * 2^attempt

Backoff(attempt) == 5 * 3^attempt

\* The attempt raises; the except clause classifies it (crawler.py 1012-1045)
\* and returns, or starts asyncio.sleep(120) or asyncio.sleep(backoff)
FetchErrorRetriesLastAttempt(w, e) ==
    /\ LoopRuns /\ wk[w].pc = "fetch"
    /\ LET s == [GateReleased(Now, w) EXCEPT !.wk[w].last_exception = <<e>>]
           class == Classify(e)
       IN  CASE class = "rate_limited" ->
                    Commit([s EXCEPT !.wk[w].pc = "penalty",
                                     !.wk[w].slept = Append(@, 120)])
             [] class = "forbidden" ->
                    Commit(DriverReturned(s, w, <<>>, <<403>>, <<e>>))
             [] class = "transient" /\ wk[w].attempt < args.max_retries ->
                    Commit([s EXCEPT !.wk[w].pc = "backoff",
                                     !.wk[w].slept = Append(@, Backoff(wk[w].attempt))])
             [] OTHER ->
                    Commit(DriverReturned(s, w, <<>>, <<>>, <<e>>))
    /\ UNCHANGED <<workerFrame, pause_event, ckpt_file>>

FetchError(w, e) ==
    /\ LoopRuns /\ wk[w].pc = "fetch"
    /\ LET s == [GateReleased(Now, w) EXCEPT !.wk[w].last_exception = <<e>>]
           class == Classify(e)
       IN  CASE class = "rate_limited" ->
                    Commit([s EXCEPT !.wk[w].pc = "penalty",
                                     !.wk[w].slept = Append(@, 120)])
             [] class = "forbidden" ->
                    Commit(DriverReturned(s, w, <<>>, <<403>>, <<e>>))
             [] class = "transient" /\ wk[w].attempt < args.max_retries - 1 ->
                    Commit([s EXCEPT !.wk[w].pc = "backoff",
                                     !.wk[w].slept = Append(@, Backoff(wk[w].attempt))])
             [] OTHER ->
                    Commit(DriverReturned(s, w, <<>>, <<>>, <<e>>))
    /\ UNCHANGED <<workerFrame, pause_event, ckpt_file>>

\* The 120 s sleep after a 429 ends: last_status_code = 429 and the loop is
\* left (crawler.py 1022-1024)
PenaltyDone(w) ==
    /\ LoopRuns /\ wk[w].pc = "penalty"
    /\ Commit(DriverReturned(Now, w, <<>>, <<429>>, wk[w].last_exception))
    /\ UNCHANGED <<workerFrame, pause_event, ckpt_file>>

\* The backoff sleep ends; the next attempt starts with a pause wait
BackoffDoneSkipsPause(w) ==
    /\ LoopRuns /\ wk[w].pc = "backoff"
    /\ Commit([Now EXCEPT !.wk[w].pc = "delay", !.wk[w].attempt = @ + 1])
    /\ UNCHANGED <<workerFrame, pause_event, ckpt_file>>

BackoffDone(w) ==
    /\ LoopRuns /\ wk[w].pc = "backoff"
    /\ Commit([Now EXCEPT !.wk[w].pc = "retry_pause", !.wk[w].attempt = @ + 1])
    /\ UNCHANGED <<workerFrame, pause_event, ckpt_file>>

\* The pause wait before a variation returns (crawler.py 1111-1119)
VarPause(w) ==
    /\ LoopRuns /\ wk[w].pc = "var_pause"
    /\ pause_event
    /\ Commit(StartDriver(Now, w, wk[w].vi))
    /\ UNCHANGED <<workerFrame, pause_event, ckpt_file>>

\* ... or times out
VarPauseTimeout(w) ==
    /\ LoopRuns /\ wk[w].pc = "var_pause"
    /\ ~pause_event
    /\ Commit(StartDriver(Now, w, wk[w].vi))
    /\ UNCHANGED <<workerFrame, pause_event, ckpt_file>>

\* A put that found the result queue full goes through
PutUnblocked(w) ==
    /\ LoopRuns /\ wk[w].pc = "put_blocked"
    /\ ~QueueFull(result_queue)
    /\ Commit(AfterPut([Now EXCEPT !.rq = Append(@, wk[w].result[1]),
                                   !.wk[w].result = <<>>], w))
    /\ UNCHANGED <<workerFrame, pause_event, ckpt_file>>

\* A waiter on progress_lock gets it (success path)
LockAcquired(w) ==
    /\ LoopRuns /\ wk[w].pc = "lock_wait"
    /\ progress_lock = <<>>
    /\ Commit(LockedSuccess(Now, w))
    /\ UNCHANGED <<workerFrame, pause_event, ckpt_file>>

\* checkpoint_handle.write(u + "\n") has run in its thread (crawler.py 1099, 1153)
CheckpointLineNormalized(u) == normalize_url(u)

CheckpointLine(u) == u

CkptWrite(w) ==
    /\ LoopRuns /\ wk[w].pc = "ckpt_write"
    /\ ckpt_file' = Append(ckpt_file, CheckpointLine(urls[w]))
    /\ Commit([Now EXCEPT !.wk[w].pc = "ckpt_flush"])
    /\ UNCHANGED <<workerFrame, pause_event>>

\* checkpoint_handle.flush() has run; the lock is released, worker() returns
CkptFlush(w) ==
    /\ LoopRuns /\ wk[w].pc = "ckpt_flush"
    /\ Commit(Finish([Now EXCEPT !.lock = <<>>], w))
    /\ UNCHANGED <<workerFrame, pause_event, ckpt_file>>

\* A waiter on progress_lock gets it (failure path)
FailLockAcquired(w) ==
    /\ LoopRuns /\ wk[w].pc = "fail_lock_wait"
    /\ progress_lock = <<>>
    /\ Commit(FailCounted(Now, w))
    /\ UNCHANGED <<workerFrame, pause_event, ckpt_file>>

\* The put of a failure record that found the queue full goes through
FailPutUnblocked(w) ==
    /\ LoopRuns /\ wk[w].pc = "fail_put_blocked"
    /\ ~QueueFull(result_queue)
    /\ Commit(FailureCopy([Now EXCEPT !.rq = Append(@, FailureRecord(urls[w]))], w))
    /\ UNCHANGED <<workerFrame, pause_event, ckpt_file>>

\* The put of the copy that found the failure queue full goes through
FailCopyUnblocked(w) ==
    /\ LoopRuns /\ wk[w].pc = "fail_copy_blocked"
    /\ ~QueueFull(failure_queue)
    /\ Commit(Finish([Now EXCEPT !.fq = Append(@, FailureRecord(urls[w]))], w))
    /\ UNCHANGED <<workerFrame, pause_event, ckpt_file>>

WorkerStep(w) ==
    \/ WorkerStart(w)
    \/ PauseEntry(w)
    \/ PauseEntryTimeout(w)
    \/ RetryPause(w)
    \/ RetryPauseTimeout(w)
    \/ Delay(w)
    \/ DomainAcquire(w)
    \/ \E status \in FetchStatuses :
          \E landed \in FetchLandings(UrlToTry(urls[w], wk[w].vi)) : FetchOk(w, status, landed)
    \/ \E e \in FetchExceptions(UrlToTry(urls[w], wk[w].vi)) : FetchError(w, e)
    \/ PenaltyDone(w)
    \/ BackoffDone(w)
    \/ VarPause(w)
    \/ VarPauseTimeout(w)
    \/ PutUnblocked(w)
    \/ LockAcquired(w)
    \/ CkptWrite(w)
    \/ CkptFlush(w)
    \/ FailLockAcquired(w)
    \/ FailPutUnblocked(w)
    \/ FailCopyUnblocked(w)

(***************************************************************************)
(* block_detection_coordinator and handle_pause_prompt                     *)
(***************************************************************************)

coordFrame == <<args, ckpt_file, urls, wk, sem, domain_semaphores,
                result_queue, progress_lock, tracker, orch, writer, written,
                failure_queue, failure_writer, failures_written,
                put_log, ckpt_base, callVars>>

\* The finally clause of the coordinator: the value of the pause signal
\* after it  (crawler.py 576-580)
CoordinatorCleanupSkipped(event) == event

CoordinatorCleanup(event) == IF ~event THEN TRUE ELSE event

\* The detector after the report at the head of the queue is recorded, and
\* whether it then reports a block
Recorded ==
    LET attempt == Head(detector_queue)
    IN  record_attempt(block_detector, attempt.url, attempt.success,
                       attempt.status_code, attempt.exception)

HeadIsReport == detector_queue # <<>> /\ Head(detector_queue).kind = "report"

BlockedBeforeRecording == is_likely_blocked(block_detector).is_blocked

Blocked == is_likely_blocked(Recorded).is_blocked

\* The poison pill arrives: break, then the finally clause
CoordPill ==
    /\ phase = "running" /\ coord = "get"
    /\ detector_queue # <<>> /\ Head(detector_queue) = Pill
    /\ detector_queue' = Tail(detector_queue)
    /\ pause_event' = CoordinatorCleanup(pause_event)
    /\ coord' = "done"
    /\ UNCHANGED <<coordFrame, block_detector, phase, exit_code>>

\* A report that does not trip the detector
CoordReport ==
    /\ phase = "running" /\ coord = "get"
    /\ HeadIsReport /\ ~Blocked
    /\ detector_queue' = Tail(detector_queue)
    /\ block_detector' = Recorded
    /\ UNCHANGED <<coordFrame, pause_event, coord, phase, exit_code>>

\* A block with action warn: clear, set, reset, without suspending
CoordWarnLeavesCleared ==
    /\ phase = "running" /\ coord = "get"
    /\ HeadIsReport /\ Blocked /\ args.block_action = "warn"
    /\ detector_queue' = Tail(detector_queue)
    /\ pause_event' = FALSE
    /\ block_detector' = reset(Recorded)
    /\ UNCHANGED <<coordFrame, coord, phase, exit_code>>

CoordWarn ==
    /\ phase = "running" /\ coord = "get"
    /\ HeadIsReport /\ Blocked /\ args.block_action = "warn"
    /\ detector_queue' = Tail(detector_queue)
    /\ pause_event' = TRUE
    /\ block_detector' = reset(Recorded)
    /\ UNCHANGED <<coordFrame, coord, phase, exit_code>>

\* What a SystemExit raised in the coordinator task leaves unchanged
exitFrame == <<args, ckpt_file, urls, result_queue, tracker, written,
               failure_queue, failures_written, put_log, ckpt_base, callVars>>

\* The tasks still running when the loop is left
Unfinished == {w \in Workers : wk[w].pc \notin {"done", "raised"}}

\* sys.exit() in the coordinator task: SystemExit leaves the event loop and
\* asyncio.run() (cli.py), before it re-raises it, cancels every task and
\* runs the loop until all of them have ended.  A task suspended in
\* asyncio.wait_for whose inner wait has already completed is not ended
\* by that: wait_for returns the inner result and the CancelledError is
\* dropped (asyncio.wait_for of CPython 3.11 and earlier), so a worker at a
\* pause wait that found the signal set can go on; whether it does depends
\* on how far its wait had got.  Every other task ends at the await it is
\* suspended at and releases what it holds.
SystemExitRaised(code, signal_was_set) ==
    \E survivors \in SUBSET {w \in Unfinished :
                                signal_was_set /\ wk[w].pc \in PauseWaits} :
        LET ended == Unfinished \ survivors
            held(d) == {w \in ended : /\ wk[w].pc = "fetch"
                                      /\ Netloc(UrlToTry(urls[w], wk[w].vi)) = d}
        IN  /\ wk' = [w \in Workers |->
                         IF w \in ended THEN At("cancelled") ELSE wk[w]]
            /\ sem' = sem + Cardinality({w \in ended : wk[w].pc # "start"})
            /\ domain_semaphores' =
                   [d \in DOMAIN domain_semaphores |->
                       domain_semaphores[d] + Cardinality(held(d))]
            /\ progress_lock' = IF progress_lock # <<>> /\ progress_lock[1] \in ended
                                THEN <<>> ELSE progress_lock
            /\ writer' = IF writer = "running" THEN "cancelled" ELSE writer
            /\ failure_writer' = IF failure_writer = "running" THEN "cancelled"
                                 ELSE failure_writer
            /\ orch' = "cancelled"
            /\ phase' = "cancelling"
            /\ exit_code' = <<code>>

\* A block with action abort: clear, sys.exit(1); the finally clause runs as
\* SystemExit leaves the coordinator
CoordAbort ==
    /\ phase = "running" /\ coord = "get"
    /\ HeadIsReport /\ Blocked /\ args.block_action = "abort"
    /\ detector_queue' = Tail(detector_queue)
    /\ pause_event' = CoordinatorCleanup(FALSE)
    /\ block_detector' = Recorded
    /\ coord' = "done"
    /\ SystemExitRaised(1, pause_event)
    /\ UNCHANGED exitFrame

\* A block with action pause and no terminal (or quiet): handle_pause_prompt
\* sets the signal and returns at once; the detector is reset
CoordPauseHeadless ==
    /\ phase = "running" /\ coord = "get"
    /\ HeadIsReport /\ Blocked /\ args.block_action = "pause" /\ ~args.tty
    /\ detector_queue' = Tail(detector_queue)
    /\ pause_event' = TRUE
    /\ block_detector' = reset(Recorded)
    /\ UNCHANGED <<coordFrame, coord, phase, exit_code>>

\* A block with action pause on a terminal: the signal is cleared and the
\* coordinator waits for the prompt thread
CoordPausePrompt ==
    /\ phase = "running" /\ coord = "get"
    /\ HeadIsReport /\ Blocked /\ args.block_action = "pause" /\ args.tty
    /\ detector_queue' = Tail(detector_queue)
    /\ pause_event' = FALSE
    /\ block_detector' = Recorded
    /\ coord' = "prompt"
    /\ UNCHANGED <<coordFrame, phase, exit_code>>

\* What prompt_with_timeout can return (crawler.py 462-494): 'c' when the
\* operator types it (or anything unrecognised) and when select() times out
\* after auto_resume_secs > 0; 'q' when the operator types it.  With
\* auto_resume_secs = 0 input() waits for the operator without limit
PromptChoices ==
    args.typed \cup (IF args.block_auto_resume > 0 THEN {"c"} ELSE {})

\* The prompt returns 'c'
PromptContinueKeepsWindow ==
    /\ phase = "running" /\ coord = "prompt"
    /\ "c" \in PromptChoices
    /\ pause_event' = TRUE
    /\ coord' = "get"
    /\ UNCHANGED <<coordFrame, detector_queue, block_detector, phase, exit_code>>

PromptContinue ==
    /\ phase = "running" /\ coord = "prompt"
    /\ "c" \in PromptChoices
    /\ pause_event' = TRUE
    /\ block_detector' = reset(block_detector)
    /\ coord' = "get"
    /\ UNCHANGED <<coordFrame, detector_queue, phase, exit_code>>

\* The prompt returns 'q': sys.exit(0), then the coordinator's finally clause
PromptQuit ==
    /\ phase = "running" /\ coord = "prompt"
    /\ "q" \in PromptChoices
    /\ pause_event' = CoordinatorCleanup(pause_event)
    /\ coord' = "done"
    /\ SystemExitRaised(0, pause_event)
    /\ UNCHANGED <<exitFrame, detector_queue, block_detector>>

\* An exception while a block is reported (a print to a closed stderr): the
\* signal has been cleared; the finally clause runs and the task ends
CoordCrash ==
    /\ phase = "running" /\ coord = "get"
    /\ HeadIsReport /\ Blocked
    /\ detector_queue' = Tail(detector_queue)
    /\ pause_event' = CoordinatorCleanup(FALSE)
    /\ block_detector' = Recorded
    /\ coord' = "crashed"
    /\ UNCHANGED <<coordFrame, phase, exit_code>>

\* Every task that asyncio.run() cancelled has ended: SystemExit is
\* re-raised and the process exits with its code
ExitProcess ==
    /\ phase = "cancelling"
    /\ Unfinished \subseteq {w \in Workers : wk[w].pc = "cancelled"}
    /\ phase' = "exited"
    /\ UNCHANGED <<exitFrame, exit_code, wk, sem, domain_semaphores, progress_lock,
                   orch, writer, failure_writer, pause_event, detector_queue,
                   block_detector, coord>>

CoordinatorStep ==
    \/ CoordPill
    \/ CoordReport
    \/ CoordWarn
    \/ CoordAbort
    \/ CoordPauseHeadless
    \/ CoordPausePrompt
    \/ PromptContinue
    \/ PromptQuit
    \/ CoordCrash

(***************************************************************************)
(* writer_worker (JSON lines): the result writer and the failure writer    *)
(***************************************************************************)

bothWritersFrame == <<args, phase, exit_code, ckpt_file, urls, wk, sem,
                      domain_semaphores, pause_event, detector_queue,
                      progress_lock, tracker, orch, coord, block_detector,
                      put_log, ckpt_base, callVars>>

writerFrame == <<bothWritersFrame, failure_queue, failure_writer,
                 failures_written>>

failureWriterFrame == <<bothWritersFrame, result_queue, writer, written>>

\* One record is taken and written
WriterWrite ==
    /\ phase = "running" /\ writer = "running"
    /\ result_queue # <<>> /\ Head(result_queue) # Pill
    /\ result_queue' = Tail(result_queue)
    /\ written' = Append(written, Head(result_queue))
    /\ UNCHANGED <<writerFrame, writer>>

\* The poison pill: the writer returns
WriterPill ==
    /\ phase = "running" /\ writer = "running"
    /\ result_queue # <<>> /\ Head(result_queue) = Pill
    /\ result_queue' = Tail(result_queue)
    /\ writer' = "done"
    /\ UNCHANGED <<writerFrame, written>>

\* Writing a record raises (an I/O error): the task ends with the exception
WriterFail ==
    /\ phase = "running" /\ writer = "running"
    /\ result_queue # <<>> /\ Head(result_queue) # Pill
    /\ result_queue' = Tail(result_queue)
    /\ writer' = "failed"
    /\ UNCHANGED <<writerFrame, written>>

WriterStep == WriterWrite \/ WriterPill \/ WriterFail

\* writer_worker(failure_queue, failures_output): one record is taken and written
FailureWriterWrite ==
    /\ phase = "running" /\ failure_writer = "running"
    /\ failure_queue # <<>> /\ Head(failure_queue) # Pill
    /\ failure_queue' = Tail(failure_queue)
    /\ failures_written' = Append(failures_written, Head(failure_queue))
    /\ UNCHANGED <<failureWriterFrame, failure_writer>>

\* The poison pill: the failure writer returns
FailureWriterPill ==
    /\ phase = "running" /\ failure_writer = "running"
    /\ failure_queue # <<>> /\ Head(failure_queue) = Pill
    /\ failure_queue' = Tail(failure_queue)
    /\ failure_writer' = "done"
    /\ UNCHANGED <<failureWriterFrame, failures_written>>

\* Writing a record raises: the task ends with the exception
FailureWriterFail ==
    /\ phase = "running" /\ failure_writer = "running"
    /\ failure_queue # <<>> /\ Head(failure_queue) # Pill
    /\ failure_queue' = Tail(failure_queue)
    /\ failure_writer' = "failed"
    /\ UNCHANGED <<failureWriterFrame, failures_written>>

FailureWriterStep == FailureWriterWrite \/ FailureWriterPill \/ FailureWriterFail

(***************************************************************************)
(* run() itself, after gather()                                            *)
(***************************************************************************)

orchFrame == <<args, exit_code, ckpt_file, urls, wk, sem, domain_semaphores,
               progress_lock, tracker, coord, block_detector, writer, written,
               failure_writer, failures_written, put_log, ckpt_base, callVars>>

\* detector_queue.put_nowait(None), when block detection is enabled
WithDetectorPill(dq) == IF args.block_detection THEN Append(dq, Pill) ELSE dq

\* await asyncio.gather(*(worker(u) for u in urls)) returns  (crawler.py 1211)
GatherReturnedEarly == \E w \in Workers : wk[w].pc = "done"

GatherReturned == \A w \in Workers : wk[w].pc = "done"

\* After the writer's pill: the failure writer's pill, when there is a
\* failure queue, then the coordinator's  (crawler.py 1220-1231)
RemainingPills ==
    IF args.failures /\ QueueFull(failure_queue)
    THEN /\ orch' = "put_failure_pill"
         /\ UNCHANGED <<failure_queue, detector_queue>>
    ELSE /\ failure_queue' = IF args.failures THEN Append(failure_queue, Pill)
                             ELSE failure_queue
         /\ detector_queue' = WithDetectorPill(detector_queue)
         /\ orch' = "await_writer"

\* All workers have returned: set the signal if cleared, then the pills
\* (crawler.py 1211-1231)
OrchShutdown ==
    /\ phase = "running" /\ orch = "gather"
    /\ GatherReturned
    /\ pause_event' = TRUE
    /\ IF QueueFull(result_queue)
       THEN /\ orch' = "put_pill"
            /\ UNCHANGED <<result_queue, failure_queue, detector_queue>>
       ELSE /\ result_queue' = Append(result_queue, Pill)
            /\ RemainingPills
    /\ UNCHANGED <<orchFrame, phase>>

\* The put of the writer's pill that found the queue full goes through
OrchPutPill ==
    /\ phase = "running" /\ orch = "put_pill"
    /\ ~QueueFull(result_queue)
    /\ result_queue' = Append(result_queue, Pill)
    /\ RemainingPills
    /\ UNCHANGED <<orchFrame, phase, pause_event>>

\* The put of the failure writer's pill that found the queue full goes through
OrchPutFailurePill ==
    /\ phase = "running" /\ orch = "put_failure_pill"
    /\ ~QueueFull(failure_queue)
    /\ failure_queue' = Append(failure_queue, Pill)
    /\ detector_queue' = WithDetectorPill(detector_queue)
    /\ orch' = "await_writer"
    /\ UNCHANGED <<orchFrame, phase, pause_event, result_queue>>

\* Both writers have been awaited: await coordinator_task, when there is
\* one, or run() returns  (crawler.py 1238-1248)
WritersAwaited ==
    IF coord = "off"
    THEN orch' = "returned" /\ phase' = "done"
    ELSE orch' = "await_coord" /\ UNCHANGED phase

\* await writer_task
OrchWriterDone ==
    /\ phase = "running" /\ orch = "await_writer"
    /\ writer = "done"
    /\ IF args.failures
       THEN orch' = "await_failure_writer" /\ UNCHANGED phase
       ELSE WritersAwaited
    /\ UNCHANGED <<orchFrame, pause_event, result_queue, failure_queue,
                   detector_queue>>

\* await writer_task re-raises the writer's exception
OrchWriterFailed ==
    /\ phase = "running" /\ orch = "await_writer"
    /\ writer = "failed"
    /\ orch' = "raised" /\ phase' = "raised"
    /\ UNCHANGED <<orchFrame, pause_event, result_queue, failure_queue,
                   detector_queue>>

\* await failure_writer_task
OrchFailureWriterDone ==
    /\ phase = "running" /\ orch = "await_failure_writer"
    /\ failure_writer = "done"
    /\ WritersAwaited
    /\ UNCHANGED <<orchFrame, pause_event, result_queue, failure_queue,
                   detector_queue>>

\* await failure_writer_task re-raises the failure writer's exception
OrchFailureWriterFailed ==
    /\ phase = "running" /\ orch = "await_failure_writer"
    /\ failure_writer = "failed"
    /\ orch' = "raised" /\ phase' = "raised"
    /\ UNCHANGED <<orchFrame, pause_event, result_queue, failure_queue,
                   detector_queue>>

\* await coordinator_task
OrchCoordDone ==
    /\ phase = "running" /\ orch = "await_coord"
    /\ coord = "done"
    /\ orch' = "returned" /\ phase' = "done"
    /\ UNCHANGED <<orchFrame, pause_event, result_queue, failure_queue,
                   detector_queue>>

\* await coordinator_task re-raises the coordinator's exception
OrchCoordCrashed ==
    /\ phase = "running" /\ orch = "await_coord"
    /\ coord = "crashed"
    /\ orch' = "raised" /\ phase' = "raised"
    /\ UNCHANGED <<orchFrame, pause_event, result_queue, failure_queue,
                   detector_queue>>

OrchestratorStep ==
    \/ OrchShutdown
    \/ OrchPutPill
    \/ OrchPutFailurePill
    \/ OrchWriterDone
    \/ OrchWriterFailed
    \/ OrchFailureWriterDone
    \/ OrchFailureWriterFailed
    \/ OrchCoordDone
    \/ OrchCoordCrashed

(***************************************************************************)
(* cli.main: de-duplication, resume from the checkpoint, run()             *)
(***************************************************************************)

\* Deduplicate URLs while preserving order  (cli.py 59-69)
RECURSIVE Dedup(_, _)
Dedup(list, seen) ==
    IF list = <<>> THEN <<>>
    ELSE IF Head(list) \in seen THEN Dedup(Tail(list), seen)
    ELSE <<Head(list)>> \o Dedup(Tail(list), seen \cup {Head(list)})

\* [u for u in list if u not in completed]  (cli.py 159)
RECURSIVE NotCompleted(_, _)
NotCompleted(list, completed) ==
    IF list = <<>> THEN <<>>
    ELSE IF Head(list) \in completed THEN NotCompleted(Tail(list), completed)
    ELSE <<Head(list)>> \o NotCompleted(Tail(list), completed)

\* str.strip() on a line of the checkpoint file: trailing white space goes
\* (the URLs explored carry white space at their end only)
RECURSIVE Strip(_)
Strip(ln) ==
    IF ln.path # <<>> /\ ln.path[Len(ln.path)] = " "
    THEN Strip([ln EXCEPT !.path = SubSeq(@, 1, Len(@) - 1)])
    ELSE ln

\* set(ln.strip() for ln in f if ln.strip())  (cli.py 153)
CompletedUrls(file) == {Strip(file[i]) : i \in DOMAIN file}

\* The URL list main() hands to run()
UrlsToRun ==
    LET deduped == Dedup(args.urls, {})
    IN  IF args.checkpoint
        THEN NotCompleted(deduped, CompletedUrls(ckpt_file))
        ELSE deduped

NoDetector == [none |-> TRUE]

NoTracker == [completed |-> 0, success_count |-> 0, failure_count |-> 0]

\* The state run() sets up before gather() starts the workers
RunStarts(list) ==
    /\ urls' = list
    /\ wk' = [w \in DOMAIN list |-> At("start")]
    /\ sem' = args.concurrency
    /\ domain_semaphores' = <<>>
    /\ pause_event' = TRUE
    /\ result_queue' = <<>>
    /\ detector_queue' = <<>>
    /\ progress_lock' = <<>>
    /\ tracker' = NoTracker
    /\ orch' = "gather"
    /\ coord' = IF args.block_detection THEN "get" ELSE "off"
    /\ block_detector' = IF args.block_detection
                         THEN BlockDetector(args.block_threshold, args.block_window)
                         ELSE NoDetector
    /\ writer' = "running"
    /\ written' = <<>>
    /\ failure_queue' = <<>>
    /\ failure_writer' = IF args.failures THEN "running" ELSE "none"
    /\ failures_written' = <<>>
    /\ put_log' = <<>>
    /\ ckpt_base' = Len(ckpt_file)

\* No run() in progress
RunIdle ==
    /\ urls = <<>>
    /\ wk = <<>>
    /\ sem = 0
    /\ domain_semaphores = <<>>
    /\ pause_event = TRUE
    /\ result_queue = <<>>
    /\ detector_queue = <<>>
    /\ progress_lock = <<>>
    /\ tracker = NoTracker
    /\ orch = "none"
    /\ coord = "off"
    /\ block_detector = NoDetector
    /\ writer = "none"
    /\ written = <<>>
    /\ failure_queue = <<>>
    /\ failure_writer = "none"
    /\ failures_written = <<>>
    /\ put_log = <<>>
    /\ ckpt_base = 0

\* The process has ended: nothing of run() is left
RunCleared ==
    /\ urls' = <<>>
    /\ wk' = <<>>
    /\ sem' = 0
    /\ domain_semaphores' = <<>>
    /\ pause_event' = TRUE
    /\ result_queue' = <<>>
    /\ detector_queue' = <<>>
    /\ progress_lock' = <<>>
    /\ tracker' = NoTracker
    /\ orch' = "none"
    /\ coord' = "off"
    /\ block_detector' = NoDetector
    /\ writer' = "none"
    /\ written' = <<>>
    /\ failure_queue' = <<>>
    /\ failure_writer' = "none"
    /\ failures_written' = <<>>
    /\ put_log' = <<>>
    /\ ckpt_base' = Len(ckpt_file)

\* main() up to the call of run(), or its return when nothing is left to do
Main ==
    /\ phase = "main"
    /\ IF args.checkpoint /\ UrlsToRun = <<>>
       THEN phase' = "returned" /\ UNCHANGED runVars /\ UNCHANGED block_detector
       ELSE phase' = "running" /\ RunStarts(UrlsToRun)
    /\ UNCHANGED <<args, exit_code, ckpt_file, callVars>>

\* Longest checkpoint file the command is run again on
MaxCheckpointLines == 3

\* The command is run again with the same arguments and checkpoint file
Reinvoke ==
    /\ phase \in {"returned", "done", "raised", "exited"}
    /\ Len(ckpt_file) <= MaxCheckpointLines
    /\ phase' = "main"
    /\ exit_code' = <<>>
    /\ RunCleared
    /\ UNCHANGED <<args, ckpt_file, callVars>>

(***************************************************************************)
(* The command lines explored                                              *)
(***************************************************************************)

\* Two URLs of one host, in the default (ultra-conservative) mode
DefaultArgs ==
    [urls |-> <<UrlA, UrlAP>>, concurrency |-> 2, max_per_domain |-> 1,
     max_retries |-> 2, try_variations |-> FALSE, max_variations |-> 4,
     block_detection |-> FALSE, block_action |-> "pause",
     block_threshold |-> 2, block_window |-> 20,
     block_auto_resume |-> 300, typed |-> {"c", "q"},
     checkpoint |-> TRUE, tty |-> TRUE, failures |-> FALSE,
     statuses |-> {200, 404}, redirects |-> {},
     faults |-> {MsgConnectionReset, MsgTooManyRequests, MsgForbidden, MsgEmpty}]

\* Three URLs through one worker at a time: the result queue holds two
SequentialArgs ==
    [DefaultArgs EXCEPT !.urls = <<UrlA, UrlAP, UrlB>>, !.concurrency = 1,
                        !.max_retries = 1]

\* Three URLs of one host, two fetches per host allowed
BalancedArgs ==
    [DefaultArgs EXCEPT !.urls = <<UrlA, UrlAP, UrlAQ>>, !.concurrency = 3,
                        !.max_per_domain = 2, !.max_retries = 1,
                        !.statuses = {200}, !.faults = {MsgConnectionReset}]

\* URL variations, a URL given twice, no retry
VariationArgs ==
    [DefaultArgs EXCEPT !.urls = <<UrlA, UrlB, UrlA>>, !.try_variations = TRUE,
                        !.max_variations = 2, !.max_retries = 1]

\* No attempt at all (--max-retries 0), no checkpoint
NoRetryArgs ==
    [DefaultArgs EXCEPT !.max_retries = 0, !.checkpoint = FALSE,
                        !.try_variations = TRUE, !.max_variations = 1]

\* A URL given on the command line with a space after it (--url "https://a.com/p ")
PaddedArgs ==
    [DefaultArgs EXCEPT !.urls = <<UrlAPs>>, !.max_retries = 1,
                        !.statuses = {200}, !.faults = {MsgEmpty}]

\* A server that redirects: "a.com" and "https://a.com/p" can end on
\* "https://b.com/"
RedirectArgs ==
    [DefaultArgs EXCEPT !.concurrency = 1, !.max_retries = 1,
                        !.redirects = {UrlB}, !.faults = {MsgEmpty}]

\* A failures file (--failures): three URLs through one worker at a time,
\* so that the failure queue, which holds two, fills
FailuresArgs ==
    [DefaultArgs EXCEPT !.urls = <<UrlA, UrlAP, UrlB>>, !.concurrency = 1,
                        !.max_retries = 2, !.failures = TRUE,
                        !.checkpoint = FALSE, !.statuses = {200},
                        !.faults = {MsgConnectionReset, MsgTooManyRequests,
                                    MsgForbidden, MsgTlsHandshake, MsgEmpty}]

\* Block detection, for each action: two hosts, one variation each
BlockArgs(action, tty) ==
    [DefaultArgs EXCEPT !.urls = <<UrlA, UrlB>>, !.concurrency = 1,
                        !.try_variations = TRUE, !.max_variations = 1,
                        !.checkpoint = FALSE, !.block_detection = TRUE,
                        !.block_action = action, !.tty = tty,
                        !.statuses = {200},
                        !.faults = {MsgConnectionReset}]

\* The same with two workers at a time
ConcurrentBlockArgs ==
    [BlockArgs("pause", TRUE) EXCEPT
        !.concurrency = 2, !.faults = {MsgConnectionReset, MsgTooManyRequests}]

\* Error texts that more than one test of the retry loop matches:
\* "403 Forbidden 429 Too Many Requests", "Connection reset by peer 403 Forbidden"
MsgForbiddenThenLimited == MsgForbidden \o <<" ">> \o MsgTooManyRequests

MsgResetForbidden == MsgConnectionReset \o <<" ">> \o MsgForbidden

\* One URL, four attempts (--max-retries 4), every kind of error on each;
\* the attempt reports show what the driver returned
RetryArgs ==
    [DefaultArgs EXCEPT !.urls = <<UrlA>>, !.concurrency = 1, !.max_retries = 4,
                        !.checkpoint = FALSE, !.block_detection = TRUE,
                        !.block_action = "warn", !.block_threshold = 5,
                        !.tty = FALSE, !.statuses = {200},
                        !.faults = {MsgConnectionReset, MsgRequestTimeout,
                                    MsgTooManyRequests, MsgForbidden,
                                    MsgForbiddenThenLimited, MsgResetForbidden,
                                    MsgTlsHandshake, MsgEmpty}]

\* One URL given without a scheme, all its variations, two attempts each;
\* answers 200, 403 and 429, errors with the texts of a reset, a 403 and a 429;
\* the attempt reports show what each driver invocation returned
VariationReportArgs ==
    [DefaultArgs EXCEPT !.urls = <<UrlA>>, !.concurrency = 1, !.max_retries = 2,
                        !.try_variations = TRUE, !.max_variations = 4,
                        !.block_detection = TRUE, !.block_action = "warn",
                        !.block_threshold = 5, !.tty = FALSE,
                        !.statuses = {200, 403, 429},
                        !.faults = {MsgConnectionReset, MsgForbidden,
                                    MsgTooManyRequests}]

Scenarios ==
    {DefaultArgs, SequentialArgs, BalancedArgs, VariationArgs, NoRetryArgs,
     PaddedArgs, FailuresArgs, RedirectArgs, RetryArgs, VariationReportArgs,
     ConcurrentBlockArgs, BlockArgs("pause", TRUE), BlockArgs("pause", FALSE),
     BlockArgs("warn", FALSE), BlockArgs("abort", FALSE)}

Init ==
    /\ args \in Scenarios
    /\ phase = "main"
    /\ exit_code = <<>>
    /\ ckpt_file = <<>>
    /\ RunIdle
    /\ last_call = <<>>
    /\ is_blocked_ret = <<>>
    /\ n_recorded = 0
    /\ frame = NoFrame

Next ==
    \/ Main
    \/ Reinvoke
    \/ \E w \in Workers : WorkerStep(w)
    \/ CoordinatorStep
    \/ ExitProcess
    \/ WriterStep
    \/ FailureWriterStep
    \/ OrchestratorStep

Spec == Init /\ [][Next]_vars

(***************************************************************************)
(* Termination: the run under fair scheduling, with no I/O error in the    *)
(* writer or the coordinator                                               *)
(***************************************************************************)

\* An operator who types nothing at the prompt, with the default
\* --block-auto-resume 300 and with --block-auto-resume 0
SilentArgs(auto_resume) ==
    [BlockArgs("pause", TRUE) EXCEPT !.typed = {},
                                     !.block_auto_resume = auto_resume]

LiveScenarios ==
    {BlockArgs("pause", TRUE), BlockArgs("pause", FALSE),
     BlockArgs("warn", FALSE), BlockArgs("abort", FALSE),
     SilentArgs(300), SilentArgs(0), NoRetryArgs, FailuresArgs}

InitLive ==
    /\ args \in LiveScenarios
    /\ phase = "main"
    /\ exit_code = <<>>
    /\ ckpt_file = <<>>
    /\ RunIdle
    /\ last_call = <<>>
    /\ is_blocked_ret = <<>>
    /\ n_recorded = 0
    /\ frame = NoFrame

\* The steps of the event loop when no write and no print raises
NextLive ==
    \/ Main
    \/ \E w \in Workers : WorkerStep(w)
    \/ CoordPill
    \/ CoordReport
    \/ CoordWarn
    \/ CoordAbort
    \/ CoordPauseHeadless
    \/ CoordPausePrompt
    \/ PromptContinue
    \/ PromptQuit
    \/ ExitProcess
    \/ WriterWrite
    \/ WriterPill
    \/ FailureWriterWrite
    \/ FailureWriterPill
    \/ OrchShutdown
    \/ OrchPutPill
    \/ OrchPutFailurePill
    \/ OrchWriterDone
    \/ OrchFailureWriterDone
    \/ OrchCoordDone

\* Every task the worker list can start
WorkerIds == UNION {DOMAIN a.urls : a \in LiveScenarios}

\* Worker task w can run: the await it is suspended at can return
WorkerReadyWithoutTimeout(w) ==
    /\ LoopRuns /\ w \in Workers
    /\ CASE wk[w].pc = "start" -> sem > 0
         [] wk[w].pc = "acquire" ->
                GateFree(domain_semaphores, Netloc(UrlToTry(urls[w], wk[w].vi)))
         [] wk[w].pc = "fetch" ->
                FetchStatuses # {} \/ FetchExceptions(UrlToTry(urls[w], wk[w].vi)) # {}
         [] wk[w].pc \in {"put_blocked", "fail_put_blocked"} -> ~QueueFull(result_queue)
         [] wk[w].pc = "fail_copy_blocked" -> ~QueueFull(failure_queue)
         [] wk[w].pc \in {"lock_wait", "fail_lock_wait"} -> progress_lock = <<>>
         [] wk[w].pc \in PauseWaits -> pause_event
         [] wk[w].pc \in {"done", "raised", "cancelled"} -> FALSE
         [] OTHER -> TRUE

WorkerReady(w) ==
    /\ LoopRuns /\ w \in Workers
    /\ CASE wk[w].pc = "start" -> sem > 0
         [] wk[w].pc = "acquire" ->
                GateFree(domain_semaphores, Netloc(UrlToTry(urls[w], wk[w].vi)))
         [] wk[w].pc = "fetch" ->
                FetchStatuses # {} \/ FetchExceptions(UrlToTry(urls[w], wk[w].vi)) # {}
         [] wk[w].pc \in {"put_blocked", "fail_put_blocked"} -> ~QueueFull(result_queue)
         [] wk[w].pc = "fail_copy_blocked" -> ~QueueFull(failure_queue)
         [] wk[w].pc \in {"lock_wait", "fail_lock_wait"} -> progress_lock = <<>>
         [] wk[w].pc \in {"done", "raised", "cancelled"} -> FALSE
         [] OTHER -> TRUE

\* The coordinator can run: detector_queue.get() can return
CoordinatorReady == phase = "running" /\ coord = "get" /\ detector_queue # <<>>

\* The event loop runs every task that is ready (asyncio's ready queue is
\* first in, first out); every sleep, deadline and fetch ends; the thread
\* pool runs the prompt and the checkpoint writes.  For the worker and the
\* coordinator steps weak fairness is written out, <>[]ready => []<>step,
\* with the readiness conditions above.
Fairness ==
    /\ WF_vars(Main)
    /\ \A w \in WorkerIds :
          []<>~WorkerReady(w) \/ []<><<w \in Workers /\ WorkerStep(w)>>_vars
    /\ []<>~CoordinatorReady
          \/ []<><<CoordPill \/ CoordReport \/ CoordWarn \/ CoordAbort
                     \/ CoordPauseHeadless \/ CoordPausePrompt>>_vars
    /\ WF_vars(PromptContinue \/ PromptQuit)
    /\ WF_vars(ExitProcess)
    /\ WF_vars(WriterWrite \/ WriterPill)
    /\ WF_vars(FailureWriterWrite \/ FailureWriterPill)
    /\ WF_vars(OrchShutdown \/ OrchPutPill \/ OrchPutFailurePill
                 \/ OrchWriterDone \/ OrchFailureWriterDone \/ OrchCoordDone)

SpecLive == InitLive /\ [][NextLive]_vars /\ Fairness

(***************************************************************************)
(* The detector (hubspot_crawler/detector.py) and the evidence of          *)
(* process_url                                                             *)
(*                                                                         *)
(* The regular expressions of RX are data (patterns/hubspot_patterns.json): *)
(* a text that is searched is given with the set of pattern keys that      *)
(* match it, and the substring a pattern matched in an HTML body is        *)
(* written as the one token <<key>>.  Cookie names are given letter by     *)
(* letter.  Of the keys of an evidence item, hubId and context are left    *)
(* out.                                                                    *)
(***************************************************************************)

\* match[:300]
MatchMax == 300

Truncate(s) == IF Len(s) > MatchMax THEN SubSeq(s, 1, MatchMax) ELSE s

\* _push: the item appended
Evidence(category, pattern_id, match, source, confidence) ==
    [category |-> category, patternId |-> pattern_id, match |-> Truncate(match),
     source |-> source, confidence |-> confidence]

\* RX[key].search(text) is not None
Search(key, text) == key \in text.hits

\* m.group(0) of a match in an HTML body
Group0(html, key) == <<key>>

\* An _push under "if m:"
PushIf(m, category, pattern_id, match, source, confidence) ==
    IF m THEN <<Evidence(category, pattern_id, match, source, confidence)>>
    ELSE <<>>

\* "hubspotutk"
NeedleHubspotutk == <<"h", "u", "b", "s", "p", "o", "t", "u", "t", "k">>

\* for ck in RX["cookie_any"].finditer(html): _push(...)
HtmlCookies(html) ==
    [i \in 1..Len(html.cookies) |->
        Evidence("cookies", "cookie_any", html.cookies[i], "html", "moderate")]

\* The confidence of the loader of a feature when its call is absent or
\* present
LoaderConfidenceAlwaysDefinitive(m_call) == "definitive"

LoaderConfidence(m_call) == IF m_call THEN "definitive" ELSE "strong"

detect_html(html) ==
    LET S(key) == Search(key, html)
        P(key, category, confidence) ==
            PushIf(S(key), category, key, Group0(html, key), "html", confidence)
    IN  (IF S("tracking_loader_script")
         THEN P("tracking_loader_script", "tracking", "definitive")
         ELSE P("tracking_script_any", "tracking", "strong"))
        \o P("analytics_core", "tracking", "strong")
        \o P("_hsq_presence", "tracking", "strong")
        \o P("banner_helper", "tracking", "strong")
        \o P("url_params_hs", "tracking", "moderate")
        \o HtmlCookies(html)
        \o P("forms_v2_loader", "forms", LoaderConfidence(S("forms_create_call")))
        \o P("forms_create_call", "forms", "definitive")
        \o P("forms_hidden_hs_context", "forms", "strong")
        \o P("chat_usemessages_js", "chat", "definitive")
        \o P("chat_usemessages_api", "chat", "definitive")
        \o P("cookie_messagesUtk", "chat", "strong")
        \o P("cta_loader_legacy", "ctas", LoaderConfidence(S("cta_load_call")))
        \o P("cta_load_call", "ctas", "definitive")
        \o P("cta_redirect_link", "ctas", "definitive")
        \o P("meetings_embed_js", "meetings", "strong")
        \o P("meetings_iframe", "meetings", "strong")
        \o P("cms_meta_generator", "cms", "strong")
        \o PushIf(S("cms_wrapper_class") /\ S("cms_internal_paths"), "cms",
                  "cms_wrapper_with_hcms", Group0(html, "cms_wrapper_class"),
                  "html", "strong")
        \o P("cms_host_hs_sites", "cms", "strong")
        \o P("cms_files_hubspotusercontent", "files", "moderate")
        \o P("cms_files_hubfs_path", "files", "moderate")
        \o P("video_hubspotvideo", "video", "strong")
        \o P("email_hubspot_marketing_click", "email", "strong")
        \o P("email_hubspotlinks", "email", "moderate")

\* The keys of the first loop of detect_network, as rows of its table
TrackingRows ==
    <<<<"tracking_loader_script", "tracking", "definitive">>,
      <<"analytics_core", "tracking", "definitive">>,
      <<"beacon_ptq", "tracking", "definitive">>>>

\* table of detect_network: (key, category, confidence)
NetworkTableAllDefinitive ==
    <<<<"forms_v2_loader", "forms", "definitive">>,
      <<"forms_submit_v2", "forms", "definitive">>,
      <<"forms_submit_v3", "forms", "definitive">>,
      <<"chat_usemessages_api", "chat", "definitive">>,
      <<"chat_usemessages_js", "chat", "definitive">>,
      <<"cta_loader_legacy", "ctas", "definitive">>,
      <<"cta_redirect_link", "ctas", "definitive">>,
      <<"meetings_embed_js", "meetings", "definitive">>,
      <<"meetings_iframe", "meetings", "definitive">>,
      <<"cms_host_hs_sites", "cms", "definitive">>,
      <<"cms_files_hubspotusercontent", "files", "definitive">>,
      <<"video_hubspotvideo", "video", "definitive">>,
      <<"email_hubspot_marketing_click", "email", "definitive">>,
      <<"email_hubspot_sales_click", "email", "definitive">>,
      <<"email_hubspotlinks", "email", "definitive">>>>

NetworkTable ==
    <<<<"forms_v2_loader", "forms", "definitive">>,
      <<"forms_submit_v2", "forms", "definitive">>,
      <<"forms_submit_v3", "forms", "definitive">>,
      <<"chat_usemessages_api", "chat", "definitive">>,
      <<"chat_usemessages_js", "chat", "definitive">>,
      <<"cta_loader_legacy", "ctas", "definitive">>,
      <<"cta_redirect_link", "ctas", "definitive">>,
      <<"meetings_embed_js", "meetings", "definitive">>,
      <<"meetings_iframe", "meetings", "strong">>,
      <<"cms_host_hs_sites", "cms", "strong">>,
      <<"cms_files_hubspotusercontent", "files", "moderate">>,
      <<"video_hubspotvideo", "video", "strong">>,
      <<"email_hubspot_marketing_click", "email", "strong">>,
      <<"email_hubspot_sales_click", "email", "strong">>,
      <<"email_hubspotlinks", "email", "moderate">>>>

\* One loop over rows for the resource URL u: an item for each row whose
\* pattern matches, with u itself as the match
RECURSIVE RowMatches(_, _)
RowMatches(rows, u) ==
    IF rows = <<>> THEN <<>>
    ELSE PushIf(Search(Head(rows)[1], u), Head(rows)[2], Head(rows)[1],
                u.text, "url", Head(rows)[3])
         \o RowMatches(Tail(rows), u)

\* detect_network on the lines of its argument; a line is given stripped
\* and an empty one is skipped
RECURSIVE detect_network(_)
detect_network(lines) ==
    IF lines = <<>> THEN <<>>
    ELSE LET u == Head(lines)
         IN  (IF u.text = <<>> THEN <<>>
              ELSE RowMatches(TrackingRows, u) \o RowMatches(NetworkTable, u))
             \o detect_network(Tail(lines))

\* The confidence that summarise grades
GradeTrackingOnly(evidence, tracking) ==
    IF evidence = <<>> THEN "weak"
    ELSE IF tracking THEN "definitive"
    ELSE "weak"

Grade(evidence, tracking) ==
    LET loader(e) == e.patternId = "tracking_loader_script"
                         /\ e.confidence = "definitive"
        solid(e) == e.confidence \in {"strong", "definitive"}
    IN  IF evidence = <<>> THEN "weak"
        ELSE IF tracking /\ (\E i \in DOMAIN evidence : loader(evidence[i]))
        THEN "definitive"
        ELSE IF tracking THEN "strong"
        ELSE IF \E i \in DOMAIN evidence : solid(evidence[i]) THEN "moderate"
        ELSE "weak"

summarise(evidence) ==
    LET has(cat) == \E i \in DOMAIN evidence : evidence[i].category = cat
        utk(e) == e.category = "cookies"
                      /\ Contains(Lower(e.match), NeedleHubspotutk)
        hosted(e) == e.category = "cms"
                         /\ e.confidence \in {"strong", "definitive"}
        tracking == has("tracking") \/ \E i \in DOMAIN evidence : utk(evidence[i])
    IN  [tracking |-> tracking,
         cmsHosting |-> \E i \in DOMAIN evidence : hosted(evidence[i]),
         features |-> [forms |-> has("forms"), chat |-> has("chat"),
                       ctasLegacy |-> has("ctas"), meetings |-> has("meetings"),
                       video |-> has("video"),
                       emailTrackingIndicators |-> has("email")],
         confidence |-> Grade(evidence, tracking)]

\* The key of the deduplication in process_url
EvidenceKey(e) == <<e.category, e.patternId, e.source, Truncate(e.match)>>

\* deduped_ev: the first item of each key, in order
RECURSIVE Deduplicated(_, _)
Deduplicated(ev, seen) ==
    IF ev = <<>> THEN <<>>
    ELSE IF EvidenceKey(Head(ev)) \in seen THEN Deduplicated(Tail(ev), seen)
    ELSE <<Head(ev)>> \o Deduplicated(Tail(ev), seen \cup {EvidenceKey(Head(ev))})

\* The items appended for one Set-Cookie value: one for each cookie name the
\* pattern finds in it
RECURSIVE CookieEvidence(_)
CookieEvidence(names) ==
    IF names = <<>> THEN <<>>
    ELSE <<[category |-> "cookies", patternId |-> "cookie_any",
            match |-> Truncate(Head(names)), source |-> "header",
            confidence |-> IF Lower(Head(names)) = NeedleHubspotutk
                           THEN "definitive" ELSE "strong"]>>
         \o CookieEvidence(Tail(names))

RECURSIVE HeaderCookies(_)
HeaderCookies(set_cookie_headers) ==
    IF set_cookie_headers = <<>> THEN <<>>
    ELSE CookieEvidence(Head(set_cookie_headers))
         \o HeaderCookies(Tail(set_cookie_headers))

\* ev of process_url as it is handed to make_result
ProcessEvidence(html, network_lines, set_cookie_headers) ==
    Deduplicated(detect_html(html) \o detect_network(network_lines), {})
        \o HeaderCookies(set_cookie_headers)

(***************************************************************************)
(* Single calls of summarise, detect_network, detect_html, the evidence    *)
(* part of process_url, and generate_url_variations                        *)
(***************************************************************************)

\* All sequences over S of length at most n
SeqsUpTo(S, n) == UNION {[1..k -> S] : k \in 0..n}

\* Cookie names: "hubspotutk", "HubSpotUTK", "__hstc"
CkHubspotutk == <<"h", "u", "b", "s", "p", "o", "t", "u", "t", "k">>

CkHubspotutkCaps == <<"H", "u", "b", "S", "p", "o", "t", "U", "T", "K">>

CkHstc == <<"_", "_", "h", "s", "t", "c">>

\* Evidence items handed to summarise: of every grade, with and without
\* tracking
EvidenceItems ==
    {Evidence("tracking", "tracking_loader_script", <<"tracking_loader_script">>,
              "html", "definitive"),
     Evidence("tracking", "tracking_loader_script", <<"tracking_loader_script">>,
              "html", "strong"),
     Evidence("tracking", "tracking_script_any", <<"tracking_script_any">>,
              "html", "strong"),
     Evidence("tracking", "url_params_hs", <<"url_params_hs">>, "html", "moderate"),
     Evidence("cookies", "cookie_any", CkHubspotutk, "header", "definitive"),
     Evidence("cookies", "cookie_any", CkHubspotutkCaps, "html", "moderate"),
     Evidence("cookies", "cookie_any", CkHstc, "header", "strong"),
     Evidence("forms", "forms_create_call", <<"forms_create_call">>, "html",
              "definitive"),
     Evidence("cms", "cms_meta_generator", <<"cms_meta_generator">>, "html", "strong"),
     Evidence("files", "cms_files_hubfs_path", <<"cms_files_hubfs_path">>, "html",
              "moderate")}

\* Longest evidence list handed to summarise
MaxEvidence == 2

SummariseCalls ==
    {[fn |-> "summarise", evidence |-> ev, ret |-> <<>>] :
        ev \in SeqsUpTo(EvidenceItems, MaxEvidence)}

\* The pattern keys detect_network looks for
NetworkKeys ==
    {TrackingRows[i][1] : i \in DOMAIN TrackingRows}
        \cup {NetworkTable[i][1] : i \in DOMAIN NetworkTable}

\* A resource URL: its text and the patterns that match it
Resource(text, hits) == [text |-> text, hits |-> hits]

\* A text of MatchMax + 1 characters ending in c
LongText(c) == [i \in 1..(MatchMax + 1) |-> IF i <= MatchMax THEN "a" ELSE c]

\* One resource URL for each pattern, one that every pattern matches, one
\* that none matches, and an empty line
Resources ==
    {Resource(<<k>>, {k}) : k \in NetworkKeys}
        \cup {Resource(<<"all">>, NetworkKeys), Resource(<<"other">>, {}),
              Resource(<<>>, {})}

\* Most lines handed to detect_network
MaxLines == 2

DetectNetworkCalls ==
    {[fn |-> "detect_network", lines |-> lines, ret |-> <<>>] :
        lines \in SeqsUpTo(Resources, MaxLines)}

\* HTML bodies: every combination of these patterns matching, without and
\* with a cookie name mentioned twice
HtmlKeys ==
    {"tracking_loader_script", "tracking_script_any", "forms_v2_loader",
     "forms_create_call", "cta_loader_legacy", "cta_load_call", "cms_wrapper_class"}

Html(hits, cookies) == [hits |-> hits, cookies |-> cookies]

DetectHtmlCalls ==
    {[fn |-> "detect_html", html |-> Html(hits, cookies), ret |-> <<>>] :
        hits \in SUBSET HtmlKeys, cookies \in {<<>>, <<CkHstc, CkHstc>>}}

\* Answers handed to process_url: a body, its resource URLs, and the names
\* the cookie pattern finds in each Set-Cookie value
ProcessCalls ==
    {[fn |-> "process_url", html |-> html, network_lines |-> lines,
      set_cookie_headers |-> cookies, ret |-> <<>>] :
        html \in {Html({}, <<>>),
                  Html({"tracking_loader_script", "forms_v2_loader"},
                       <<CkHubspotutk, CkHubspotutk>>)},
        lines \in {<<>>,
                   <<Resource(<<"all">>, NetworkKeys), Resource(<<"all">>, NetworkKeys)>>,
                   <<Resource(LongText("x"), {"forms_v2_loader"}),
                     Resource(LongText("y"), {"forms_v2_loader"})>>,
                   <<Resource(<<"forms_v2_loader">>, {"forms_v2_loader"}),
                     Resource(<<"other">>, {"forms_v2_loader"})>>},
        cookies \in {<<>>, <<<<CkHubspotutk>>>>, <<<<>>, <<CkHstc, CkHubspotutkCaps>>>>,
                     <<<<CkHubspotutk, CkHubspotutk>>>>,
                     <<<<CkHubspotutk>>, <<CkHubspotutk>>>>}}

\* URLs handed to generate_url_variations: hosts with and without "www.",
\* with a port ("a.com:8") and with user-info ("u@a.com", "u@www.a.com:8")
VariationUrls ==
    {Url(scheme, netloc, path, rest) :
        scheme \in {"http", "https"},
        netloc \in {<<"a.com">>, <<"www.", "a.com">>, <<"a.com", ":8">>,
                    <<"u@", "a.com">>, <<"u@", "www.", "a.com", ":8">>},
        path \in {<<>>, <<"/">>, <<"/", "p">>, <<"/", "p", "/">>,
                  <<"/", "p", "/", "/">>, <<"/", "/">>},
        rest \in {"", "?x=1"}}

\* Largest max_variations handed to generate_url_variations
MaxN == 5

VariationCalls ==
    {[fn |-> "generate_url_variations", url |-> u, max_variations |-> n,
      ret |-> <<>>] : u \in VariationUrls, n \in 0..MaxN}

\* What the operator does at the prompt: a line is read, select() times out,
\* or reading raises (EOFError of input() on a closed stdin)
Typed(text) == [kind |-> "line", text |-> text]

SelectTimeout == [kind |-> "timeout", text |-> <<>>]

InputError == [kind |-> "error", text |-> <<>>]

\* Lines typed: c, q, in capitals, with blanks, unrecognised ones, an empty
\* line, and the empty text readline() returns at end of input
TypedLines ==
    {<<"c", "\n">>, <<"q", "\n">>, <<"Q", "\n">>, <<"C">>, <<" ", "q", " ", "\n">>,
     <<"x", "\n">>, <<"q", "q", "\n">>, <<"q", " ", "c">>, <<"\n">>, <<>>}

\* select() can time out only when auto_resume_secs > 0
PromptInputs(auto_resume_secs) ==
    {Typed(t) : t \in TypedLines} \cup {InputError}
        \cup (IF auto_resume_secs > 0 THEN {SelectTimeout} ELSE {})

White == {" ", "\n"}

\* str.strip()
RECURSIVE StripText(_)
StripText(s) ==
    IF s # <<>> /\ Head(s) \in White THEN StripText(Tail(s))
    ELSE IF s # <<>> /\ s[Len(s)] \in White THEN StripText(SubSeq(s, 1, Len(s) - 1))
    ELSE s

\* prompt_with_timeout(): the choice it returns  (crawler.py 462-494)
PromptTimeoutQuits(auto_resume_secs, input) ==
    CASE input.kind = "error" -> <<"c">>
      [] input.kind = "timeout" -> <<"q">>
      [] OTHER -> LET choice == Lower(StripText(input.text))
                  IN  IF choice \in {<<"c">>, <<"q">>} THEN choice ELSE <<"c">>

prompt_with_timeout(auto_resume_secs, input) ==
    CASE input.kind = "error" -> <<"c">>
      [] input.kind = "timeout" -> <<"c">>
      [] OTHER -> LET choice == Lower(StripText(input.text))
                  IN  IF choice \in {<<"c">>, <<"q">>} THEN choice ELSE <<"c">>

\* handle_pause_prompt(pause_event, block_detector, auto_resume_secs, quiet):
\* whether it called pause_event.set(), whether it waited for the prompt
\* thread, and <<>> or <<the code of the SystemExit it raised>>
handle_pause_prompt(quiet, isatty, auto_resume_secs, input) ==
    IF quiet \/ ~isatty
    THEN [set |-> TRUE, prompted |-> FALSE, exit |-> <<>>]
    ELSE LET choice == prompt_with_timeout(auto_resume_secs, input)
         IN  IF choice = <<"q">>
             THEN [set |-> FALSE, prompted |-> TRUE, exit |-> <<0>>]
             ELSE [set |-> TRUE, prompted |-> TRUE, exit |-> <<>>]

\* --block-auto-resume values: wait without limit, and the default
AutoResumeSecs == {0, 300}

PromptCalls ==
    {[fn |-> "handle_pause_prompt", quiet |-> quiet, isatty |-> isatty,
      auto_resume_secs |-> secs, input |-> input, ret |-> <<>>] :
        quiet \in BOOLEAN, isatty \in BOOLEAN,
        secs \in AutoResumeSecs, input \in PromptInputs(300)}

Calls ==
    SummariseCalls \cup DetectNetworkCalls \cup DetectHtmlCalls
        \cup ProcessCalls \cup VariationCalls
        \cup {c \in PromptCalls : c.input \in PromptInputs(c.auto_resume_secs)}

InitCalls ==
    /\ frame \in Calls
    /\ args = NoArgs
    /\ phase = "call"
    /\ exit_code = <<>>
    /\ ckpt_file = <<>>
    /\ RunIdle
    /\ last_call = <<>>
    /\ is_blocked_ret = <<>>
    /\ n_recorded = 0

\* A call returns
Returns(fn, value) ==
    /\ frame.fn = fn
    /\ frame.ret = <<>>
    /\ frame' = [frame EXCEPT !.ret = <<value>>]
    /\ UNCHANGED <<cliVars, runVars, block_detector, last_call, is_blocked_ret,
                   n_recorded>>

CallSummarise == Returns("summarise", summarise(frame.evidence))

CallDetectNetwork == Returns("detect_network", detect_network(frame.lines))

CallDetectHtml == Returns("detect_html", detect_html(frame.html))

CallProcessUrl ==
    Returns("process_url",
            LET ev == ProcessEvidence(frame.html, frame.network_lines,
                                      frame.set_cookie_headers)
            IN  [evidence |-> ev, summary |-> summarise(ev)])

CallGenerateVariations ==
    Returns("generate_url_variations",
            generate_url_variations(frame.url, frame.max_variations))

CallHandlePausePrompt ==
    Returns("handle_pause_prompt",
            handle_pause_prompt(frame.quiet, frame.isatty, frame.auto_resume_secs,
                                frame.input))

NextCalls ==
    \/ CallHandlePausePrompt
    \/ CallSummarise
    \/ CallDetectNetwork
    \/ CallDetectHtml
    \/ CallProcessUrl
    \/ CallGenerateVariations

SpecCalls == InitCalls /\ [][NextCalls]_vars

(***************************************************************************)
(* The detector on long call sequences: the retry buffer fills             *)
(***************************************************************************)

\* Calls at the start of a long sequence that take any arguments
PrefixLen == 2

\* Longest sequence of record_attempt calls: the retry buffer fills after
\* the prefix and then evicts
MaxLong == 54

\* The URL of call number i after the prefix: "https://a.com/p?i"
LongUrl(i) == Url("https", <<"a.com">>, <<"/", "p">>, ToString(i))

\* The arguments of call number i: any at the start, then a 403 on LongUrl(i)
LongCalls(i) ==
    IF i <= PrefixLen THEN WindowCalls
    ELSE {[url |-> LongUrl(i), success |-> FALSE, status_code |-> <<403>>,
           exception |-> <<>>]}

CallRecordLong(call) ==
    /\ n_recorded < MaxLong
    /\ block_detector' = record_attempt(block_detector, call.url, call.success,
                                        call.status_code, call.exception)
    /\ n_recorded' = n_recorded + 1
    /\ last_call' = <<[call |-> call, before |-> block_detector]>>
    /\ is_blocked_ret' = <<>>
    /\ UNCHANGED <<cliVars, runVars, frame>>

NextLong ==
    \/ \E call \in LongCalls(n_recorded + 1) : CallRecordLong(call)
    \/ CallIsLikelyBlocked

SpecLong == InitDetector /\ [][NextLong]_vars

(***************************************************************************)
(* Properties of a run                                                     *)
(***************************************************************************)

\* The URL worker w is fetching, or about to fetch
CurrentUrl(w) == UrlToTry(urls[w], wk[w].vi)

\* The workers inside a fetch to host h: past the acquire of h's gate and
\* not yet past its release
InFlight(h) == {w \in Workers : wk[w].pc = "fetch" /\ Netloc(CurrentUrl(w)) = h}

\* C1: in every state of a run, for every host the number of workers inside
\* a fetch to it is at most max_per_domain (with max_per_domain = 1, no two
\* fetches to one host are in flight at once), whatever concurrency is.
C1_PerDomainLimit ==
    phase = "running" =>
        \A w \in Workers :
            Cardinality(InFlight(Netloc(CurrentUrl(w)))) <= args.max_per_domain

\* Two workers at once on one host with max_per_domain = 1: one fetches,
\* the other waits at the gate
C1_Witness ==
    /\ phase = "running"
    /\ args.max_per_domain = 1 /\ args.concurrency >= 2
    /\ \E w1, w2 \in Workers :
          /\ wk[w1].pc = "fetch" /\ wk[w2].pc = "acquire"
          /\ Netloc(CurrentUrl(w1)) = Netloc(CurrentUrl(w2))

\* The records put on the result channel for input URL u
RecordsOf(u) == {i \in DOMAIN put_log : put_log[i].original_url = u}

\* C2: each input URL handed to run() has at most one record put on the
\* result channel, and when the run reaches its end exactly one (a result
\* or a failure record), so the writer has been given as many records as
\* there are input URLs not skipped by the checkpoint.
C2_OneRecordPerUrl ==
    /\ \A w \in Workers : Cardinality(RecordsOf(urls[w])) <= 1
    /\ phase = "done" =>
          /\ \A w \in Workers : Cardinality(RecordsOf(urls[w])) = 1
          /\ Len(put_log) = Len(urls)
          /\ written = put_log

\* A run has ended with a result for one URL and a failure record for another
C2_Witness ==
    /\ phase = "done"
    /\ \E i, j \in DOMAIN put_log :
          put_log[i].kind = "result" /\ put_log[j].kind = "failure"

\* The lines of the checkpoint file, and those appended by this run
CheckpointLines == {ckpt_file[i] : i \in DOMAIN ckpt_file}

RunLines == SubSeq(ckpt_file, ckpt_base + 1, Len(ckpt_file))

\* A success result for input URL u has been put on the result channel
ResultPut(u) ==
    \E i \in DOMAIN put_log :
        put_log[i].kind = "result" /\ put_log[i].original_url = u

\* C3: an input URL is appended to the checkpoint file only after its
\* result record has been put on the result channel.
C3_CheckpointAfterPut ==
    \A i \in DOMAIN RunLines : ResultPut(RunLines[i])

\* The line of a URL has been written, its worker still holds the lock, and
\* the writer has not taken the record yet
C3_Witness ==
    \E w \in Workers :
        /\ wk[w].pc = "ckpt_flush"
        /\ RunLines # <<>> /\ RunLines[Len(RunLines)] = urls[w]
        /\ \E i \in DOMAIN result_queue : result_queue[i].original_url = urls[w]

\* C4: every line appended to the checkpoint during a run is the raw input
\* URL of a worker that put a success result (through a variation
\* included), no URL is appended twice, and a URL whose attempts all failed
\* is not appended.
C4_CheckpointLines ==
    /\ \A i \in DOMAIN RunLines :
          /\ \E w \in Workers : RunLines[i] = urls[w]
          /\ \E k \in DOMAIN args.urls : RunLines[i] = args.urls[k]
          /\ ResultPut(RunLines[i])
          /\ \A j \in DOMAIN RunLines : RunLines[j] = RunLines[i] => j = i
    /\ \A i \in DOMAIN put_log :
          put_log[i].kind = "failure" =>
              \A j \in DOMAIN RunLines : RunLines[j] # put_log[i].original_url

\* A URL given without a scheme succeeded through a variation and is in the
\* checkpoint as given, while another URL of the run failed
C4_Witness ==
    /\ \E i \in DOMAIN put_log :
          /\ put_log[i].kind = "result"
          /\ \E j \in DOMAIN RunLines : RunLines[j] = put_log[i].original_url
          /\ put_log[i].original_url # normalize_url(put_log[i].original_url)
          /\ put_log[i].fetched # normalize_url(put_log[i].original_url)
    /\ \E j \in DOMAIN put_log : put_log[j].kind = "failure"

\* The input list L as a set
InputSet == {args.urls[k] : k \in DOMAIN args.urls}

\* C5: an invocation with a checkpoint dispatches workers for exactly the
\* URLs of L that are not in the checkpoint set, once each; when every URL
\* of L is in the set it returns without starting run(): no worker, no fetch.
C5_ResumeSkipsCompleted ==
    [][(phase = "main" /\ phase' # "main" /\ args.checkpoint) =>
          /\ InputSet \subseteq CheckpointLines =>
                phase' = "returned" /\ wk' = <<>> /\ urls' = <<>>
          /\ ~(InputSet \subseteq CheckpointLines) =>
                /\ phase' = "running"
                /\ {urls'[w] : w \in DOMAIN urls'} = InputSet \ CheckpointLines
                /\ Cardinality(InputSet \ CheckpointLines) = Len(urls')
                /\ DOMAIN wk' = DOMAIN urls']_vars

(***************************************************************************)
(* Properties of the block detector                                        *)
(***************************************************************************)

\* The window and the positions of its blocking entries
Window == block_detector.recent_attempts

BlockingEntries == {i \in DOMAIN Window : Window[i].is_blocking}

\* The last n blocking entries: those with fewer than n blocking entries
\* after them
LastBlockingEntries(n) ==
    {i \in BlockingEntries : Cardinality({j \in BlockingEntries : j > i}) < n}

\* C6: after any sequence of record_attempt and reset calls,
\* is_likely_blocked returns true iff the blocking entries in the window
\* number at least threshold, the last threshold of them span at least two
\* domains, and they are at least 60% of the entries in the window.
C6_BlockedIffThreeConditions ==
    is_blocked_ret # <<>> =>
        (is_blocked_ret[1].is_blocked <=>
            /\ Cardinality(BlockingEntries) >= block_detector.threshold
            /\ Cardinality({Window[i].domain :
                   i \in LastBlockingEntries(block_detector.threshold)}) >= 2
            /\ Len(Window) > 0
            /\ 100 * Cardinality(BlockingEntries) >= 60 * Len(Window))

\* A block reported at exactly 60%: three blocking entries out of five,
\* with threshold 3
C6_Witness ==
    /\ is_blocked_ret # <<>>
    /\ is_blocked_ret[1].is_blocked
    /\ Len(Window) = 5
    /\ Cardinality(BlockingEntries) = 3
    /\ block_detector.threshold = 3

\* The class of an error, by the error it is the text of
ErrorKind(exception) ==
    IF exception = <<>> THEN "none"
    ELSE CASE exception[1] \in {MsgConnectionReset, MsgConnResetError,
                                FetchErrorText(UrlB, MsgConnectionReset)}
                  -> "connectionReset"
           [] exception[1] = MsgTlsHandshake -> "tls"
           [] exception[1] = MsgSslError -> "ssl"
           [] exception[1] = MsgClientConnector -> "clientConnectorError"
           [] exception[1] \in {MsgRequestTimeout, MsgEmpty,
                                FetchErrorText(UrlB, MsgRequestTimeout)}
                  -> "timeout"
           [] OTHER -> "other"

BlockingKinds == {"connectionReset", "tls", "ssl", "clientConnectorError"}

AtPauseWait(w) == wk[w].pc \in {"pause1", "retry_pause", "var_pause"}

\* C8: when the 300 s timeout of a pause wait expires with the signal
\* cleared, the worker goes on and the signal is still cleared after its
\* step.
C8_TimeoutKeepsSignal ==
    [][\A w \in Workers :
          (phase = "running" /\ ~pause_event /\ AtPauseWait(w)
              /\ wk'[w].pc # wk[w].pc)
          => ~pause_event']_vars

\* C9: whenever the coordinator task has terminated (pill, exception, abort
\* or quit), the pause signal is set.
C9_CoordinatorExitSetsSignal ==
    coord \in {"done", "crashed"} => pause_event

\* The coordinator has crashed after clearing the signal while a worker is
\* at a pause wait
C9_Witness ==
    /\ coord = "crashed"
    /\ pause_event
    /\ phase = "running"
    /\ \E w \in Workers : AtPauseWait(w)

\* C10: once the writer task has ended with an error, no worker puts a
\* failure record on the result channel.
C10_NoFailurePutAfterWriterFailed ==
    [][writer = "failed" =>
          \A i \in DOMAIN put_log' :
              i > Len(put_log) => put_log'[i].kind # "failure"]_vars

(***************************************************************************)
(* C11: under fair scheduling, when every fetch attempt ends, the run      *)
(* ends for every block action and every prompt setting, a silent operator *)
(* included.  Stated generously: the run has ended when run() has returned *)
(* ("done") or the process has exited through the abort action or the      *)
(* operator's 'q' ("exited").                                              *)
(***************************************************************************)
RunEnded == phase \in {"done", "exited"}

C11_RunTerminates == (phase = "running") ~> RunEnded

\* All the work is done and run() waits for a coordinator that waits for input
C11_StuckAtPrompt ==
    /\ phase = "running" /\ orch = "await_coord" /\ coord = "prompt"
    /\ \A w \in Workers : wk[w].pc = "done"
    /\ writer = "done"

(***************************************************************************)
(* C12: at most `concurrency` workers hold the global counter at any time: *)
(* those past "async with sem" and not yet returned, whether they fetch,   *)
(* sleep (pacing, backoff, 429 penalty) or wait (pause signal, domain      *)
(* gate, result queue, progress lock).                                     *)
(***************************************************************************)
HoldingCounter ==
    {w \in Workers : wk[w].pc \notin {"start", "done", "raised", "cancelled"}}

C12_GlobalLimit ==
    phase \in {"running", "done", "raised", "cancelling", "exited"} =>
        /\ Cardinality(HoldingCounter) <= args.concurrency
        /\ sem = args.concurrency - Cardinality(HoldingCounter)

\* The counter is exhausted by a worker in its 429 penalty sleep while
\* another task waits for the counter
C12_Witness ==
    /\ phase = "running"
    /\ Cardinality(HoldingCounter) = args.concurrency
    /\ \E w \in Workers : wk[w].pc = "penalty"
    /\ \E w \in Workers : wk[w].pc = "start"

(***************************************************************************)
(* C13: the writer writes whole records in the order they were put on the  *)
(* result channel; nothing put is lost while the writer runs; the sentinel *)
(* is put only after every worker has completed, so when the writer has    *)
(* consumed it and exited every record put has been written.               *)
(***************************************************************************)
IsPrefix(s, t) == Len(s) <= Len(t) /\ SubSeq(t, 1, Len(s)) = s

\* The records waiting on the result channel (the sentinel is not a record)
RECURSIVE QueuedRecords(_)
QueuedRecords(q) ==
    IF q = <<>> THEN <<>>
    ELSE IF Head(q) = Pill THEN QueuedRecords(Tail(q))
    ELSE <<Head(q)>> \o QueuedRecords(Tail(q))

SentinelQueued == \E i \in DOMAIN result_queue : result_queue[i] = Pill

C13_WriterOrder ==
    /\ IsPrefix(written, put_log)
    /\ writer = "running" => written \o QueuedRecords(result_queue) = put_log
    /\ SentinelQueued =>
          /\ \A w \in Workers : wk[w].pc = "done"
          /\ result_queue[Len(result_queue)] = Pill
    /\ writer = "done" =>
          /\ written = put_log
          /\ \A w \in Workers : wk[w].pc = "done"

\* Three workers at a time: the writer has exited after writing the three
\* records in an order that is not the input order
C13_Witness ==
    /\ writer = "done" /\ args.concurrency = 3
    /\ Len(written) = 3
    /\ written[1].original_url # urls[1]

(***************************************************************************)
(* C14: a fetch error of any class stays inside its worker.  No worker and *)
(* no run ends with an exception unless a writer or the coordinator has    *)
(* failed; a worker that has returned after its attempts failed has put    *)
(* exactly one failure record on the result channel and, with a failures   *)
(* file, exactly one copy of it on the failure channel; a worker that      *)
(* returned with a result has put no copy.                                 *)
(***************************************************************************)
\* What has been put on the failure channel (its writer takes a record off
\* the queue and writes it; a writer that failed has dropped one)
FailureChannel == failures_written \o QueuedRecords(failure_queue)

CopiesOf(u) == {i \in DOMAIN FailureChannel : FailureChannel[i].original_url = u}

C14_FetchErrorsContained ==
    /\ phase = "raised" =>
          writer = "failed" \/ failure_writer = "failed" \/ coord = "crashed"
    /\ \A w \in Workers : wk[w].pc = "raised" => ~WriterHealthy
    /\ \A w \in Workers : wk[w].pc = "done" =>
          /\ Cardinality(RecordsOf(urls[w])) = 1
          /\ \A i \in RecordsOf(urls[w]) :
                IF put_log[i].kind = "failure"
                THEN /\ put_log[i] = FailureRecord(urls[w])
                     /\ args.failures /\ failure_writer # "failed" =>
                           /\ Cardinality(CopiesOf(urls[w])) = 1
                           /\ \A j \in CopiesOf(urls[w]) :
                                 FailureChannel[j] = put_log[i]
                     /\ ~args.failures => FailureChannel = <<>>
                ELSE CopiesOf(urls[w]) = {}

\* A run with a failures file has returned: two URLs failed, one succeeded
C14_Witness ==
    /\ phase = "done" /\ args.failures
    /\ Len(failures_written) = 2 /\ Len(written) = 3
    /\ \A i \in DOMAIN failures_written : failures_written[i].kind = "failure"

(***************************************************************************)
(* The URLs of a record                                                    *)
(***************************************************************************)

\* The raw input URLs of the run
RawInputs == {urls[w] : w \in Workers}

Returned(fn) == frame.fn = fn /\ frame.ret # <<>>

\* The evidence list a summary was made of, and the summary: of a summarise
\* call, or of the result of process_url
SummaryCase ==
    IF frame.fn = "summarise"
    THEN [evidence |-> frame.evidence, summary |-> frame.ret[1]]
    ELSE frame.ret[1]

HasLoaderDefinitive(ev) ==
    \E i \in DOMAIN ev : /\ ev[i].patternId = "tracking_loader_script"
                         /\ ev[i].confidence = "definitive"

HasSolid(ev) == \E i \in DOMAIN ev : ev[i].confidence \in {"strong", "definitive"}

\* A hubspotutk cookie taken from a Set-Cookie header
IsHeaderUtk(e) ==
    /\ e.category = "cookies" /\ e.source = "header"
    /\ Lower(e.match) = NeedleHubspotutk

NetworkItems(ev, key, u) ==
    {i \in DOMAIN ev : /\ ev[i].patternId = key /\ ev[i].source = "url"
                       /\ ev[i].match = Truncate(u.text)}

\* The lines detect_network looks at
NonEmptyLines == {i \in DOMAIN frame.lines : frame.lines[i].text # <<>>}

\* The patterns the claim is about, and those of them that the table gives
\* as strong
ClaimedKeys ==
    {"tracking_loader_script", "analytics_core", "beacon_ptq", "forms_v2_loader",
     "forms_submit_v2", "forms_submit_v3", "chat_usemessages_api",
     "chat_usemessages_js", "cta_loader_legacy", "cta_redirect_link",
     "meetings_embed_js", "cms_host_hs_sites", "video_hubspotvideo",
     "email_hubspot_marketing_click", "email_hubspot_sales_click"}

StrongKeys ==
    {"cms_host_hs_sites", "video_hubspotvideo", "email_hubspot_marketing_click",
     "email_hubspot_sales_click"}

\* Every claimed pattern that matches a line has items, all of them strong
\* for the patterns of strong_keys and definitive for the others
NetworkConfidence(strong_keys) ==
    Returned("detect_network") =>
        \A i \in NonEmptyLines : \A key \in ClaimedKeys :
            Search(key, frame.lines[i]) =>
                /\ NetworkItems(frame.ret[1], key, frame.lines[i]) # {}
                /\ \A j \in NetworkItems(frame.ret[1], key, frame.lines[i]) :
                       frame.ret[1][j].confidence =
                           IF key \in strong_keys THEN "strong" ELSE "definitive"

\* C17 as claimed: for every resource URL, detect_network emits evidence of
\* confidence definitive for each matching pattern among tracking, forms
\* loader and submit-v2/v3, chat api and js, CTA loader and redirect,
\* meetings embed script, cms_host_hs_sites, video_hubspotvideo,
\* email_hubspot_marketing_click and email_hubspot_sales_click.
C17_AllDefinitive == NetworkConfidence({})

\* C17 as amended: the evidence is definitive for tracking, forms loader and
\* submit-v2/v3, chat api and js, CTA loader and redirect and the meetings
\* embed script, and strong for cms_host_hs_sites, video_hubspotvideo,
\* email_hubspot_marketing_click and email_hubspot_sales_click.
C17_NetworkConfidence == NetworkConfidence(StrongKeys)

\* A resource URL that every pattern matches gave a definitive forms item
\* and a strong cms item
C17_Witness ==
    /\ Returned("detect_network")
    /\ \E i \in NonEmptyLines :
          LET u == frame.lines[i]
              ev == frame.ret[1]
          IN  /\ Search("forms_v2_loader", u) /\ Search("cms_host_hs_sites", u)
              /\ \E j \in NetworkItems(ev, "forms_v2_loader", u) :
                     ev[j].confidence = "definitive"
              /\ \E j \in NetworkItems(ev, "cms_host_hs_sites", u) :
                     ev[j].confidence = "strong"

\* The tuple of the claim: (category, patternId, source, first 300
\* characters of match)
DedupTuple(e) ==
    <<e.category, e.patternId, e.source,
      SubSeq(e.match, 1, IF Len(e.match) < 300 THEN Len(e.match) ELSE 300)>>

\* C18: in every result record produced by process_url, no two evidence
\* items share the same tuple (category, patternId, source, first 300
\* characters of match); this covers evidence from the HTML body, from
\* resource URLs and from Set-Cookie headers.
C18_NoDuplicateEvidence ==
    Returned("process_url") =>
        \A i, j \in DOMAIN frame.ret[1].evidence :
            i # j => DedupTuple(frame.ret[1].evidence[i])
                         # DedupTuple(frame.ret[1].evidence[j])

\* The same of the items that do not come from a header: body and resource
\* URL duplicates are removed
C18_BodyAndNetworkDeduplicated ==
    Returned("process_url") =>
        \A i, j \in DOMAIN frame.ret[1].evidence :
            /\ i # j
            /\ frame.ret[1].evidence[i].source # "header"
            /\ frame.ret[1].evidence[j].source # "header"
            => DedupTuple(frame.ret[1].evidence[i])
                   # DedupTuple(frame.ret[1].evidence[j])

\* Two Set-Cookie mentions of hubspotutk are both in the result, and the
\* two resource URLs that agree on their first 300 characters gave one item
C18_Witness ==
    /\ Returned("process_url")
    /\ Len(frame.network_lines) = 2
    /\ frame.network_lines[1].text # frame.network_lines[2].text
    /\ Cardinality({i \in DOMAIN frame.ret[1].evidence :
                       frame.ret[1].evidence[i].source = "url"}) = 1
    /\ Cardinality({i \in DOMAIN frame.ret[1].evidence :
                       IsHeaderUtk(frame.ret[1].evidence[i])}) = 2

\* The items of ev with patternId key
PatternItems(ev, key) == {i \in DOMAIN ev : ev[i].patternId = key}

\* One item for key when it matches and none when it does not, of
\* confidence definitive if also_key matches too and strong otherwise
LoaderRule(html, ev, key, also_key) ==
    /\ ~Search(key, html) => PatternItems(ev, key) = {}
    /\ Search(key, html) =>
          /\ Cardinality(PatternItems(ev, key)) = 1
          /\ \A i \in PatternItems(ev, key) :
                /\ ev[i].confidence = "definitive" <=> Search(also_key, html)
                /\ ev[i].confidence = "strong" <=> ~Search(also_key, html)

\* C19: for every HTML body, detect_html emits forms_v2_loader with
\* confidence definitive if and only if forms_create_call also matches in
\* the same body and strong otherwise, and emits cta_loader_legacy with
\* confidence definitive if and only if cta_load_call also matches and
\* strong otherwise; forms_create_call and cta_load_call are definitive
\* whenever they match.
C19_LoaderNeedsCall ==
    Returned("detect_html") =>
        LET html == frame.html
            ev == frame.ret[1]
        IN  /\ LoaderRule(html, ev, "forms_v2_loader", "forms_create_call")
            /\ LoaderRule(html, ev, "cta_loader_legacy", "cta_load_call")
            /\ \A key \in {"forms_create_call", "cta_load_call"} :
                  /\ Search(key, html) <=> PatternItems(ev, key) # {}
                  /\ \A i \in PatternItems(ev, key) :
                         ev[i].confidence = "definitive"

\* A body with the forms loader and its create call, and with the CTA
\* loader without its load call
C19_Witness ==
    /\ Returned("detect_html")
    /\ {"forms_v2_loader", "forms_create_call", "cta_loader_legacy"}
           \subseteq frame.html.hits
    /\ "cta_load_call" \notin frame.html.hits
    /\ \E i, j \in DOMAIN frame.ret[1] :
          /\ frame.ret[1][i].patternId = "forms_v2_loader"
          /\ frame.ret[1][i].confidence = "definitive"
          /\ frame.ret[1][j].patternId = "cta_loader_legacy"
          /\ frame.ret[1][j].confidence = "strong"

\* What a variation v of URL u is: 1 the www toggle, 2 the scheme flip,
\* 3 a trailing slash added, 4 the trailing slashes of a path other than
\* "/" removed; 0 when it is none of them
SameBut(u, v, field) ==
    \A f \in {"scheme", "netloc", "path", "rest"} \ {field} : v[f] = u[f]

VariationRank(u, v) ==
    IF /\ SameBut(u, v, "netloc")
       /\ \/ v.netloc = <<"www.">> \o u.netloc /\ Head(u.netloc) # "www."
          \/ u.netloc = <<"www.">> \o v.netloc
    THEN 1
    ELSE IF /\ SameBut(u, v, "scheme")
            /\ {u.scheme, v.scheme} = {"http", "https"}
    THEN 2
    ELSE IF /\ SameBut(u, v, "path")
            /\ v.path = u.path \o <<"/">>
            /\ (u.path = <<>> \/ u.path[Len(u.path)] # "/")
    THEN 3
    ELSE IF /\ SameBut(u, v, "path")
            /\ u.path # <<"/">> /\ Len(v.path) < Len(u.path)
            /\ v.path = SubSeq(u.path, 1, Len(v.path))
            /\ \A i \in (Len(v.path) + 1)..Len(u.path) : u.path[i] = "/"
            /\ (v.path = <<>> \/ v.path[Len(v.path)] # "/")
    THEN 4
    ELSE 0

\* C20: for every URL u and every maxN >= 0, generate_url_variations(u,
\* maxN) returns a list with no duplicates, not containing u, of length at
\* most maxN, whose elements appear in the priority order www-toggle,
\* scheme-flip, add-trailing-slash, strip-trailing-slash (a non-root
\* trailing slash only).
C20_Variations ==
    Returned("generate_url_variations") =>
        LET u == frame.url
            ret == frame.ret[1]
        IN  /\ \A i, j \in DOMAIN ret : i # j => ret[i] # ret[j]
            /\ \A i \in DOMAIN ret : ret[i] # u
            /\ Len(ret) <= frame.max_variations
            /\ \A i \in DOMAIN ret : VariationRank(u, ret[i]) \in 1..4
            /\ \A i, j \in DOMAIN ret :
                  i < j => VariationRank(u, ret[i]) < VariationRank(u, ret[j])

\* "https://www.a.com/p/?x=1" with room for five: the www toggle, the
\* scheme flip and the path without its slash, in this order
C20_Witness ==
    /\ Returned("generate_url_variations")
    /\ frame.max_variations > 3
    /\ Len(frame.ret[1]) = 3
    /\ VariationRank(frame.url, frame.ret[1][1]) = 1
    /\ VariationRank(frame.url, frame.ret[1][2]) = 2
    /\ VariationRank(frame.url, frame.ret[1][3]) = 4

\* The parts of a netloc as urllib.parse splits it: the user-info is what
\* precedes the last "@" (<<>> when there is none), the host is what follows
\* it up to the first ":", the port what follows that ":"
LastAt(chars) ==
    IF \E i \in DOMAIN chars : chars[i] = "@"
    THEN CHOOSE i \in DOMAIN chars :
            chars[i] = "@" /\ \A j \in (i + 1)..Len(chars) : chars[j] # "@"
    ELSE 0

UserInfo(netloc) ==
    LET chars == TokensChars(netloc)
    IN  IF LastAt(chars) = 0 THEN <<>> ELSE <<SubSeq(chars, 1, LastAt(chars) - 1)>>

HostInfo(netloc) ==
    LET chars == TokensChars(netloc)
    IN  SubSeq(chars, LastAt(chars) + 1, Len(chars))

FirstColon(chars) ==
    IF \E i \in DOMAIN chars : chars[i] = ":"
    THEN CHOOSE i \in DOMAIN chars :
            chars[i] = ":" /\ \A j \in 1..(i - 1) : chars[j] # ":"
    ELSE Len(chars) + 1

HostName(netloc) ==
    LET hostinfo == HostInfo(netloc)
    IN  SubSeq(hostinfo, 1, FirstColon(hostinfo) - 1)

Port(netloc) ==
    LET hostinfo == HostInfo(netloc)
    IN  SubSeq(hostinfo, FirstColon(hostinfo) + 1, Len(hostinfo))

\* "www."
WwwPrefix == <<"w", "w", "w", ".">>

\* C21: for every URL u, every variation returned by
\* generate_url_variations(u) has the same query string, fragment, port and
\* user-info as u, and the www-toggle variation adds or removes the "www."
\* prefix on the host component only, also when u carries user-info or a
\* port.
C21_VariationsPreserveParts ==
    Returned("generate_url_variations") =>
        LET u == frame.url
            ret == frame.ret[1]
        IN  \A i \in DOMAIN ret :
               /\ ret[i].rest = u.rest
               /\ Port(ret[i].netloc) = Port(u.netloc)
               /\ UserInfo(ret[i].netloc) = UserInfo(u.netloc)
               /\ ret[i].netloc # u.netloc =>
                     \/ HostName(ret[i].netloc) = WwwPrefix \o HostName(u.netloc)
                     \/ HostName(u.netloc) = WwwPrefix \o HostName(ret[i].netloc)

\* "https://u@a.com/p": the first variation is "https://www.u@a.com/p",
\* whose user-info is "www.u" and whose host is still "a.com"
C21_Witness ==
    /\ Returned("generate_url_variations")
    /\ frame.url.netloc = <<"u@", "a.com">>
    /\ Len(frame.ret[1]) >= 1
    /\ UserInfo(frame.ret[1][1].netloc) = <<WwwPrefix \o <<"u">>>>
    /\ HostName(frame.ret[1][1].netloc) = HostName(frame.url.netloc)

\* Without user-info the claim holds: the port, query string and fragment
\* are kept and the prefix is toggled on the host
C21_WithoutUserInfo ==
    (Returned("generate_url_variations") /\ UserInfo(frame.url.netloc) = <<>>)
        => C21_VariationsPreserveParts

\* The window entry record_attempt makes of a call
EntryOf(call) ==
    [url |-> call.url, domain |-> Netloc(call.url),
     is_blocking |-> IsBlocking(call.success, call.status_code, call.exception)]

\* q after x arrives, for a buffer of the given capacity that keeps the
\* most recent entries in arrival order
Arrived(q, x, capacity) ==
    IF Len(q) < capacity THEN q \o <<x>>
    ELSE SubSeq(q, 2, Len(q)) \o <<x>>

\* C22: after any sequence of record_attempt calls, the attempt window holds
\* at most window_size entries and the retry buffer at most 50 URLs, and
\* each holds the most recent entries in arrival order: when full, appending
\* evicts the oldest entry.
C22_BoundedBuffers ==
    /\ Len(block_detector.recent_attempts) <= block_detector.window_size
    /\ Len(block_detector.failed_urls_for_retry) <= RetryMaxLen
    /\ last_call # <<>> =>
          LET call == last_call[1].call
              before == last_call[1].before
          IN  /\ block_detector.recent_attempts =
                    Arrived(before.recent_attempts, EntryOf(call),
                            block_detector.window_size)
              /\ block_detector.failed_urls_for_retry =
                    IF EntryOf(call).is_blocking
                    THEN Arrived(before.failed_urls_for_retry, call.url, RetryMaxLen)
                    ELSE before.failed_urls_for_retry
    /\ n_recorded >= PrefixLen + RetryMaxLen =>
          /\ block_detector.failed_urls_for_retry =
                [k \in 1..RetryMaxLen |-> LongUrl(n_recorded - RetryMaxLen + k)]
          /\ block_detector.recent_attempts =
                [k \in 1..block_detector.window_size |->
                    [url |-> LongUrl(n_recorded - block_detector.window_size + k),
                     domain |-> <<"a.com">>, is_blocking |-> TRUE]]

\* The 51st blocking failure arrives at a full retry buffer and a full
\* window of three: the oldest of each has gone
C22_Witness ==
    /\ last_call # <<>>
    /\ Len(last_call[1].before.failed_urls_for_retry) = RetryMaxLen
    /\ Len(block_detector.failed_urls_for_retry) = RetryMaxLen
    /\ Head(block_detector.failed_urls_for_retry)
          = last_call[1].before.failed_urls_for_retry[2]
    /\ block_detector.window_size = 3
    /\ Len(last_call[1].before.recent_attempts) = 3
    /\ Head(block_detector.recent_attempts) = last_call[1].before.recent_attempts[2]

\* C23: reset() empties the attempt window and leaves the retry buffer, the
\* threshold and the window capacity unchanged; immediately after reset,
\* is_likely_blocked returns false.
C23_ResetFrame ==
    [][CallReset =>
          /\ block_detector'.recent_attempts = <<>>
          /\ block_detector'.failed_urls_for_retry
                = block_detector.failed_urls_for_retry
          /\ block_detector'.threshold = block_detector.threshold
          /\ block_detector'.window_size = block_detector.window_size
          /\ ~is_likely_blocked(block_detector').is_blocked]_vars

\* A detector that has recorded blocking failures and has been reset: the
\* window is empty, the retry buffer is not, and the is_likely_blocked call
\* that followed returned false
C23_Witness ==
    /\ n_recorded >= block_detector.threshold
    /\ block_detector.recent_attempts = <<>>
    /\ Len(block_detector.failed_urls_for_retry) >= 2
    /\ is_blocked_ret # <<>>
    /\ ~is_blocked_ret[1].is_blocked

\* The coordinator has aborted the run: sys.exit(1) has been raised
Aborted ==
    /\ phase \in {"cancelling", "exited"}
    /\ args.block_action = "abort"
    /\ coord = "done"

C24_CoordinatorStops ==
    [][(Aborted /\ phase' # "main") =>
          /\ exit_code = <<1>> /\ exit_code' = <<1>>
          /\ IsPrefix(detector_queue, detector_queue')
          /\ block_detector' = block_detector]_vars

\* The workers executing the checkpoint write or flush of their URL
InCheckpoint == {w \in Workers : wk[w].pc \in {"ckpt_write", "ckpt_flush"}}

\* C25: at most one worker at a time is executing the checkpoint
\* write-and-flush of a URL: the write and flush for one URL are never
\* interleaved with the write or flush for another URL, for any number of
\* workers.  (A worker between its write and its flush finds its own line
\* last in the file.)
C25_CheckpointExclusive ==
    /\ Cardinality(InCheckpoint) <= 1
    /\ \A w \in InCheckpoint : progress_lock = <<w>>
    /\ \A w \in Workers :
          wk[w].pc = "ckpt_flush" =>
              /\ Len(ckpt_file) > ckpt_base
              /\ ckpt_file[Len(ckpt_file)] = urls[w]

\* One worker is between its write and its flush while two others have
\* posted their results and wait for the lock
C25_Witness ==
    /\ \E w \in Workers : wk[w].pc = "ckpt_flush" /\ progress_lock = <<w>>
    /\ Cardinality({w \in Workers : wk[w].pc = "lock_wait"}) >= 2

\* The coordinator consumes the attempt report at the head of its queue
ConsumesReport ==
    /\ phase = "running" /\ coord = "get" /\ HeadIsReport
    /\ detector_queue' = Tail(detector_queue)

\* C26: for each attempt report it consumes, the coordinator first records
\* it in the detector and then evaluates is_likely_blocked; when that is
\* true it clears the pause signal before dispatching the action, and for
\* warn and for a resumed pause it has both set the pause signal again and
\* reset the detector window before it consumes the next report.
C26_CoordinatorSequence ==
    [][/\ ConsumesReport =>
             LET rec == record_attempt(block_detector,
                                       Head(detector_queue).url,
                                       Head(detector_queue).success,
                                       Head(detector_queue).status_code,
                                       Head(detector_queue).exception)
                 is_blocked == is_likely_blocked(rec).is_blocked
             IN  /\ ~is_blocked =>
                       /\ block_detector' = rec
                       /\ pause_event' = pause_event
                       /\ coord' = "get"
                 /\ is_blocked =>
                       /\ coord' = "prompt" => ~pause_event' /\ block_detector' = rec
                       /\ coord' = "get" =>
                             /\ args.block_action \in {"warn", "pause"}
                             /\ pause_event'
                             /\ block_detector' = reset(rec)
                       /\ args.block_action = "warn" => coord' # "prompt"
       /\ (phase = "running" /\ coord = "prompt" /\ coord' = "get") =>
             /\ pause_event'
             /\ block_detector' = reset(block_detector)
             /\ detector_queue' = detector_queue]_vars

\* The operator has resumed a pause: the coordinator is about to consume the
\* next report with the signal set and the window empty
C26_Witness ==
    /\ phase = "running" /\ coord = "get"
    /\ args.block_action = "pause" /\ args.tty
    /\ HeadIsReport
    /\ pause_event
    /\ block_detector.recent_attempts = <<>>
    /\ block_detector.failed_urls_for_retry # <<>>

\* A block has been handled and the detector reset since
BlockHandled ==
    /\ block_detector.recent_attempts = <<>>
    /\ block_detector.failed_urls_for_retry # <<>>

\* C27: with block action warn the coordinator clears the pause signal and
\* sets it again without suspending in between, so the signal is set in
\* every state in which a worker can run: no worker suspends on it or finds
\* it cleared because of a block handled by warn.
C27_WarnNeverPauses ==
    args.block_action = "warn" =>
        /\ pause_event
        /\ coord # "prompt"

\* Warn has handled a block while a worker is at a pause wait, which it
\* leaves without waiting
C27_Witness ==
    /\ phase = "running" /\ args.block_action = "warn"
    /\ coord = "get" /\ BlockHandled
    /\ \E w \in Workers : wk[w].pc \in PauseWaits
    /\ pause_event

\* The operator typed q: the letter, in either case, with blanks around it
TypedQuit(input) ==
    /\ input.kind = "line"
    /\ \E i \in DOMAIN input.text :
          /\ input.text[i] \in {"q", "Q"}
          /\ \A j \in DOMAIN input.text \ {i} : input.text[j] \in {" ", "\n"}

C28_WitnessTimeout ==
    /\ frame.fn = "handle_pause_prompt" /\ frame.ret # <<>>
    /\ ~frame.quiet /\ frame.isatty
    /\ frame.input.kind = "timeout" /\ frame.ret[1].set

C28_WitnessQuit ==
    /\ frame.fn = "handle_pause_prompt" /\ frame.ret # <<>>
    /\ frame.input.text = <<" ", "q", " ", "\n">> /\ frame.ret[1].exit = <<0>>

\* The tests of the except clause, on the text of an exception
Is429(e) == Contains(Lower(e), Needle429) \/ Contains(Lower(e), NeedleTooMany)

Is403(e) == Contains(Lower(e), Needle403) \/ Contains(Lower(e), NeedleForbidden)

\* The positions inside one invocation of the driver
DriverPcs == {"retry_pause", "delay", "acquire", "fetch", "penalty", "backoff"}

\* A worker step on which the driver returns and the attempt is reported
DriverReports == Len(detector_queue') = Len(detector_queue) + 1

ReportMade == detector_queue'[Len(detector_queue')]

\* C29: an attempt that fails with an error matching the 429 test makes the
\* driver sleep 120 s and then return failure with status 429 without a
\* further attempt; one matching the 403 test (and not the 429 test) makes
\* it return failure with status 403 at once, with no sleep.  The 429 test
\* comes before the 403 test and both before the transient test, whatever
\* attempts remain.
C29_RateLimitedAndForbidden ==
    [][\A w \in DOMAIN wk \cap DOMAIN wk' :
          /\ (wk[w].pc = "fetch" /\ wk'[w].pc \in {"penalty", "backoff"}) =>
                LET e == wk'[w].last_exception[1]
                IN  /\ Is429(e) <=> wk'[w].pc = "penalty"
                    /\ wk'[w].pc = "penalty" => wk'[w].slept = Append(wk[w].slept, 120)
                    /\ wk'[w].pc = "backoff" => ~Is403(e)
                    /\ detector_queue' = detector_queue
          /\ (wk[w].pc = "fetch" /\ wk'[w] # wk[w] /\ DriverReports
                  /\ ~ReportMade.success) =>
                LET e == ReportMade.exception[1]
                IN  /\ ~Is429(e)
                    /\ ReportMade.status_code = IF Is403(e) THEN <<403>> ELSE <<>>
          /\ (wk[w].pc = "penalty" /\ wk'[w] # wk[w] /\ wk'[w].pc # "cancelled") =>
                /\ wk'[w].pc \notin DriverPcs
                /\ args.block_detection =>
                      /\ DriverReports
                      /\ ~ReportMade.success
                      /\ ReportMade.status_code = <<429>>
                      /\ ReportMade.exception = wk[w].last_exception
                      /\ ReportMade.url = UrlToTry(urls[w], wk[w].vi)]_vars

\* The second of four attempts fails with a text that the 429 test, the
\* 403 test and the transient test all match: the worker is in the 120 s sleep
C29_Witness ==
    \E w \in Workers :
        /\ args.max_retries = 4
        /\ wk[w].pc = "penalty" /\ wk[w].attempt = 1
        /\ wk[w].slept = <<5, 120>>
        /\ Is429(wk[w].last_exception[1]) /\ Is403(wk[w].last_exception[1])

\* A failure with status 403 reported on the second attempt, for a text the
\* transient test matches too
C29_WitnessForbidden ==
    /\ args.max_retries = 4
    /\ detector_queue # <<>>
    /\ LET r == detector_queue[Len(detector_queue)]
       IN  /\ r.kind = "report" /\ r.status_code = <<403>>
           /\ Contains(Lower(r.exception[1]), <<"c", "o", "n", "n", "e", "c", "t", "i", "o", "n">>)

\* is_transient, on the text of an exception
IsTransient(e) == \E x \in transient_needles : Contains(Lower(e), x)

\* 5, 15, 45, ...: the sleeps after the failed attempts 0 .. n-1
BackoffSchedule(n) == [i \in 1..n |-> 5 * 3^(i - 1)]

\* C30: for a URL whose every attempt fails with a transient error the
\* driver makes exactly max_retries fetch attempts, sleeps 5 * 3^k seconds
\* after failed attempt k for k = 0 .. max_retries - 2, does not sleep after
\* the final attempt, and returns failure with the exception of that attempt.
C30_TransientRetries ==
    [][\A w \in DOMAIN wk \cap DOMAIN wk' :
          /\ (wk[w].pc = "fetch" /\ wk'[w].pc = "backoff") =>
                LET e == wk'[w].last_exception[1]
                    k == wk[w].attempt
                IN  /\ IsTransient(e)
                    /\ k <= args.max_retries - 2
                    /\ wk'[w].attempt = k
                    /\ wk'[w].slept = Append(wk[w].slept, 5 * 3^k)
                    /\ wk'[w].slept = BackoffSchedule(k + 1)
          /\ (wk[w].pc = "backoff" /\ wk'[w] # wk[w] /\ wk'[w].pc # "cancelled") =>
                /\ wk'[w] = [wk[w] EXCEPT !.pc = "retry_pause", !.attempt = @ + 1]
                /\ wk'[w].attempt <= args.max_retries - 1
          /\ (wk[w].pc = "fetch" /\ wk'[w] # wk[w] /\ DriverReports
                  /\ ~ReportMade.success
                  /\ IsTransient(ReportMade.exception[1])
                  /\ ~Is429(ReportMade.exception[1])
                  /\ ~Is403(ReportMade.exception[1])) =>
                /\ wk[w].attempt = args.max_retries - 1
                /\ wk[w].slept = BackoffSchedule(args.max_retries - 1)
                /\ wk'[w].pc \notin DriverPcs
                /\ ReportMade.status_code = <<>>]_vars

\* Four attempts have failed with "Request timeout": the failure has been
\* reported and the worker has left the driver
C30_Witness ==
    /\ args.max_retries = 4
    /\ detector_queue # <<>>
    /\ LET r == detector_queue[Len(detector_queue)]
       IN  /\ r.kind = "report" /\ ~r.success /\ r.status_code = <<>>
           /\ r.exception = <<FetchErrorText(r.url, MsgRequestTimeout)>>
    /\ \A w \in Workers : wk[w].pc \notin DriverPcs

\* The final attempt of four is under way after sleeps of 5, 15 and 45 s
C30_WitnessFinalAttempt ==
    \E w \in Workers :
        /\ args.max_retries = 4
        /\ wk[w].pc = "fetch" /\ wk[w].attempt = 3
        /\ wk[w].slept = <<5, 15, 45>>

\* The attempt failed by the fetcher's deadline (httpx.TimeoutException
\* "Request timeout", wrapped by fetch_html and process_url)
FetcherTimeout(r) == r.exception = <<FetchErrorText(r.url, MsgRequestTimeout)>>

\* The attempt failed by the 30 s outer deadline of the driver
\* (asyncio.TimeoutError, whose text is empty)
OuterTimeout(r) == r.exception = <<MsgEmpty>>

\* The driver returns a failure from an attempt after which others remain
GivesUpEarly(w) ==
    /\ wk[w].pc = "fetch" /\ wk'[w] # wk[w]
    /\ wk[w].attempt < args.max_retries - 1
    /\ DriverReports /\ ~ReportMade.success

\* C31: an attempt that fails by timeout, by the fetcher's 20 s deadline or
\* by the driver's 30 s outer deadline, is transient: while attempts remain
\* the driver does not return the failure, it backs off and tries again.
C31_TimeoutsRetried ==
    [][\A w \in DOMAIN wk \cap DOMAIN wk' :
          GivesUpEarly(w) => ~FetcherTimeout(ReportMade) /\ ~OuterTimeout(ReportMade)]_vars

\* The part that holds: a fetcher timeout is not returned while attempts remain
C31_FetcherTimeoutRetried ==
    [][\A w \in DOMAIN wk \cap DOMAIN wk' :
          GivesUpEarly(w) => ~FetcherTimeout(ReportMade)]_vars

\* With four attempts allowed, a failure by the outer deadline has been
\* reported while the worker has made no backoff sleep: the first attempt
\* was the only one
C31_Witness ==
    /\ args.max_retries = 4
    /\ detector_queue # <<>>
    /\ detector_queue[Len(detector_queue)].kind = "report"
    /\ OuterTimeout(detector_queue[Len(detector_queue)])
    /\ \A w \in Workers : wk[w].pc \notin DriverPcs

\* Worker w moves on this step (and is not ended by a cancellation)
Moves(w) == wk'[w] # wk[w] /\ wk'[w].pc # "cancelled"

\* C32: every fetch attempt of a worker (first attempt, retry, variation
\* attempt) is preceded by a pause check the worker made after its previous
\* attempt ended; a worker at a pause check with the signal cleared starts
\* no fetch from there; and clearing the signal does not touch a worker
\* that is past its check, which completes its attempt.
C32_PauseCheckBeforeEveryAttempt ==
    [][/\ \A w \in DOMAIN wk \cap DOMAIN wk' :
             /\ (Moves(w) /\ wk'[w].pc = "fetch") => wk[w].pc \in {"delay", "acquire"}
             /\ (Moves(w) /\ wk'[w].pc = "acquire") => wk[w].pc = "delay"
             /\ (Moves(w) /\ wk'[w].pc = "delay") => wk[w].pc = "retry_pause"
             /\ (Moves(w) /\ wk[w].pc = "fetch") =>
                   wk'[w].pc \notin {"delay", "acquire", "fetch"}
             /\ (Moves(w) /\ wk[w].pc \in {"pause1", "var_pause"}) =>
                   wk'[w].pc \notin {"delay", "acquire", "fetch"}
       /\ (pause_event /\ ~pause_event') =>
             /\ wk' = wk
             /\ domain_semaphores' = domain_semaphores
             /\ sem' = sem]_vars

\* The signal is cleared at the prompt: one worker waits at its pause check
\* while another, past its check, is in its fetch
C32_Witness ==
    /\ phase = "running" /\ coord = "prompt" /\ ~pause_event
    /\ \E w \in Workers : wk[w].pc \in PauseWaits
    /\ \E w \in Workers : wk[w].pc = "fetch"

\* Worker w leaves an invocation of the driver on this step: from an attempt
\* or the penalty sleep, or at once when no attempt is allowed
ReturnsFromDriver(w) ==
    /\ wk'[w] # wk[w]
    /\ ~(phase = "running" /\ phase' = "cancelling")
    /\ \/ wk[w].pc \in {"fetch", "penalty"} /\ wk'[w].pc \notin DriverPcs
       \/ wk[w].pc \in {"pause1", "var_pause"} /\ args.max_retries = 0

\* C33: each attempt report is enqueued strictly after the driver
\* invocation it describes has ended, and posting it never blocks the
\* worker: the step on which the invocation ends is the step that appends
\* the report, whatever the queue holds and whatever the coordinator does.
\* The signal is cleared only while the coordinator is at the prompt, where
\* it waits for the operator and not for a report: when the coordinator
\* waits for the workers no worker waits for the coordinator.
C33_ReportsNeverBlock ==
    /\ [][/\ (DriverReports /\ ReportMade.kind = "report") =>
                /\ detector_queue' = Append(detector_queue, ReportMade)
                /\ \E w \in DOMAIN wk \cap DOMAIN wk' :
                      /\ ReturnsFromDriver(w)
                      /\ ReportMade.url = UrlToTry(urls[w], wk[w].vi)
                      /\ \A v \in DOMAIN wk \ {w} : wk'[v] = wk[v]
          /\ \A w \in DOMAIN wk \cap DOMAIN wk' :
                (args.block_detection /\ ReturnsFromDriver(w)) =>
                    /\ DriverReports
                    /\ ReportMade.kind = "report"
                    /\ ReportMade.url = UrlToTry(urls[w], wk[w].vi)]_vars
    /\ []((LoopRuns /\ ~pause_event) => coord = "prompt")

\* The coordinator is suspended in the prompt and two reports have been
\* enqueued behind it
C33_Witness ==
    /\ phase = "running" /\ coord = "prompt"
    /\ Len(detector_queue) >= 2
    /\ \A i \in DOMAIN detector_queue : detector_queue[i].kind = "report"

\* generate_url_variations(normalize(u), maxVariations), or none when disabled
VariationList(u) ==
    IF args.try_variations
    THEN generate_url_variations(normalize_url(u), args.max_variations)
    ELSE <<>>

\* The URL of attempt-list entry vi of input u: 0 is the normalized URL
ListedUrl(u, vi) == IF vi = 0 THEN normalize_url(u) ELSE VariationList(u)[vi]

\* The result record worker w hands to the result queue on this step
EmittedOn(w) ==
    IF Len(put_log') > Len(put_log) THEN <<put_log'[Len(put_log')]>>
    ELSE wk'[w].result

C34_WitnessAfterBlocked ==
    /\ args.try_variations
    /\ \E w \in Workers : wk[w].pc = "var_pause" /\ wk[w].vi = 1
    /\ \E i \in DOMAIN detector_queue :
          /\ detector_queue[i].kind = "report"
          /\ detector_queue[i].status_code \in {<<403>>, <<429>>}

\* The report just made is of an attempt answered with an HTTP error status
AnsweredWithError(r) ==
    r.kind = "report" /\ r.status_code # <<>> /\ r.status_code[1] >= 400
        /\ r.exception = <<>>

AttemptLoop == DriverPcs \cup {"var_pause"}

\* process_url has been called for the attempt in progress
FetchMade(l) == l.pc \in {"fetch", "backoff", "penalty"}

\* Twice the number of attempts before the one in progress (max_retries for
\* every attempt-list entry left behind), plus one once its fetch is made
Progress(l) ==
    2 * (l.vi * args.max_retries + l.attempt) + (IF FetchMade(l) THEN 1 ELSE 0)

\* Worker w calls process_url on this step
StartsFetch(w) == wk[w].pc # "fetch" /\ wk'[w].pc = "fetch"

\* C36: for every input URL the number of fetch attempts is at most
\* max_retries * (1 + V), V the number of variations generated (at most
\* max_variations and at most 4, none when variations are disabled): every
\* fetch takes the next unused attempt number, which never goes back and
\* stays below that bound, and a worker that has left the attempt loop
\* fetches no more.  With max_retries = 0 no fetch is made and the URL ends
\* with a failure record.
C36_FetchAttemptsBounded ==
    /\ [][\A w \in DOMAIN wk \cap DOMAIN wk' :
            LET V == Len(VariationList(urls[w]))
                R == args.max_retries
            IN  /\ StartsFetch(w) =>
                      /\ wk[w].pc \in {"delay", "acquire"}
                      /\ wk'[w].attempt < R /\ wk'[w].vi <= V
                      /\ Progress(wk[w]) % 2 = 0
                      /\ Progress(wk'[w]) = Progress(wk[w]) + 1
                      /\ Progress(wk'[w]) <= 2 * R * (1 + V) - 1
                /\ (wk[w].pc \in AttemptLoop /\ wk'[w].pc \in AttemptLoop) =>
                      Progress(wk'[w]) >= Progress(wk[w])
                /\ wk[w].pc \notin AttemptLoop \cup {"start", "pause1"} =>
                      wk'[w].pc \notin AttemptLoop
                /\ (wk[w].pc \in {"start", "pause1"} /\ wk'[w].pc \in AttemptLoop) =>
                      Progress(wk'[w]) = 0]_vars
    /\ [](\A w \in DOMAIN wk :
            /\ Len(VariationList(urls[w])) <= 4
            /\ args.try_variations => Len(VariationList(urls[w])) <= args.max_variations
            /\ args.max_retries = 0 =>
                  /\ wk[w].pc \notin DriverPcs
                  /\ wk[w].pc = "done" =>
                        \E i \in DOMAIN put_log : put_log[i] = FailureRecord(urls[w]))

\* The last fetch the bound allows: attempt max_retries - 1 of the last of
\* three variations of "a.com", after max_retries fetches on each entry
\* before it ...
C36_Witness ==
    \E w \in DOMAIN wk :
        /\ args.max_retries = 2 /\ Len(VariationList(urls[w])) = 3
        /\ wk[w].pc = "fetch" /\ wk[w].vi = 3 /\ wk[w].attempt = 1
        /\ Progress(wk[w]) = 2 * args.max_retries * (1 + 3) - 1

\* ... and a run with --max-retries 0 that ended with the failure records
C36_WitnessNoRetry ==
    /\ args.max_retries = 0 /\ phase = "done" /\ urls # <<>>
    /\ \A w \in DOMAIN wk : wk[w].pc = "done"
    /\ \A i \in DOMAIN put_log : put_log[i].kind = "failure" /\ put_log[i].attempts = 0
    /\ Len(put_log) = Len(urls)

\* The workers inside "async with domain_sem" for host h
FetchingFrom(h) ==
    {w \in DOMAIN wk : /\ wk[w].pc = "fetch"
                       /\ Netloc(UrlToTry(urls[w], wk[w].vi)) = h}

\* C37: a domain gate is held for one fetch attempt only and released on
\* every way out of it (result, error, 30 s deadline): its value plus the
\* number of fetches to its host in flight is max_per_domain, so with no
\* fetch to the host in flight the gate has full capacity and a worker in a
\* pacing, backoff or penalty sleep holds none.  A gate entry, once created,
\* stays in the registry until the run ends.
C37_GateHeldOnlyForFetch ==
    /\ [](\A h \in DOMAIN domain_semaphores :
            /\ domain_semaphores[h] + Cardinality(FetchingFrom(h)) = args.max_per_domain
            /\ FetchingFrom(h) = {} => domain_semaphores[h] = args.max_per_domain
            /\ domain_semaphores[h] >= 0)
    /\ [](\A w \in DOMAIN wk :
            wk[w].pc = "fetch" =>
                Netloc(UrlToTry(urls[w], wk[w].vi)) \in DOMAIN domain_semaphores)
    /\ [][(phase \in {"running", "cancelling"}
              /\ phase' \in {"running", "cancelling", "done", "raised"}) =>
             DOMAIN domain_semaphores \subseteq DOMAIN domain_semaphores']_vars

\* The gate of "a.com" was taken for a fetch that failed with the 429 text;
\* the worker is in the 120 s penalty sleep and the gate is full again
C37_Witness ==
    \E w \in DOMAIN wk :
        /\ wk[w].pc = "penalty" /\ wk[w].last_exception # <<>>
        /\ Netloc(UrlToTry(urls[w], wk[w].vi)) \in DOMAIN domain_semaphores
        /\ domain_semaphores[Netloc(UrlToTry(urls[w], wk[w].vi))] = args.max_per_domain
        /\ FetchingFrom(Netloc(UrlToTry(urls[w], wk[w].vi))) = {}

\* Two gates in the registry, one of them taken by a fetch in flight, the
\* other created earlier and free
C37_WitnessTwoGates ==
    \E h, g \in DOMAIN domain_semaphores :
        /\ h # g
        /\ FetchingFrom(h) # {} /\ domain_semaphores[h] < args.max_per_domain
        /\ FetchingFrom(g) = {} /\ domain_semaphores[g] = args.max_per_domain

\* The coordinator detects a block on the report it consumes
DetectsBlock == ConsumesReport /\ Blocked

\* The coordinator has dealt with a block and goes back to the queue: warn
\* and the headless pause within the detecting step, the prompt on 'c'
HandlesBlock ==
    /\ phase = "running" /\ phase' = "running" /\ coord' = "get"
    /\ DetectsBlock \/ coord = "prompt"

\* C38: once the coordinator has handled a block (warn, or pause and
\* resume) the window is empty; the window grows by at most one entry, and
\* only when a report is consumed; a detection finds at least threshold
\* blocking entries in it, so at least threshold reports are consumed
\* between two detections.  The window the coordinator takes back to the
\* queue never satisfies the block test: no window triggers two actions.
C38_WindowEmptyAfterBlock ==
    /\ [][/\ HandlesBlock =>
                /\ block_detector'.recent_attempts = <<>>
                /\ ~is_likely_blocked(block_detector').is_blocked
          /\ DetectsBlock =>
                /\ Len(SelectBlocking(Recorded.recent_attempts)) >= block_detector.threshold
                /\ Len(block_detector.recent_attempts) + 1 >= block_detector.threshold
          /\ (block_detector # NoDetector /\ block_detector' # NoDetector
                 /\ Len(block_detector'.recent_attempts)
                        > Len(block_detector.recent_attempts)) =>
                /\ ConsumesReport
                /\ Len(block_detector'.recent_attempts)
                       = Len(block_detector.recent_attempts) + 1
          /\ (phase = "running" /\ coord = "prompt") =>
                /\ Len(detector_queue') >= Len(detector_queue)
                /\ SubSeq(detector_queue', 1, Len(detector_queue)) = detector_queue
                /\ coord' = "get" \/ block_detector' = block_detector]_vars
    /\ []((LoopRuns /\ coord = "get" /\ block_detector # NoDetector) =>
              ~is_likely_blocked(block_detector).is_blocked)

\* Two blocks handled in one run: the retry buffer holds the blocking
\* failures of both (at least twice the threshold), the window is empty
\* after the second reset and the coordinator is back at the queue
C38_Witness ==
    /\ phase = "running" /\ coord = "get"
    /\ block_detector.threshold >= 2
    /\ block_detector.recent_attempts = <<>>
    /\ Len(block_detector.failed_urls_for_retry) >= 2 * block_detector.threshold

\* The same after a pause at the prompt that the operator resumed
C38_WitnessResumed ==
    /\ C38_Witness /\ args.block_action = "pause" /\ args.tty

\* C39: a detector whose window is smaller than its threshold (the command
\* line accepts it) never reports a block: is_likely_blocked returns false
\* after every sequence of record_attempt calls.
C39_SmallWindowNeverBlocks ==
    block_detector.window_size < block_detector.threshold =>
        /\ ~is_likely_blocked(block_detector).is_blocked
        /\ is_likely_blocked(block_detector).stats = NoStats
        /\ is_blocked_ret # <<>> => ~is_blocked_ret[1].is_blocked
        /\ Len(SelectBlocking(block_detector.recent_attempts)) < block_detector.threshold

\* Threshold 3, window 2: after at least three blocking failures the window
\* holds two of them, on two hosts, and is_likely_blocked has returned false
C39_Witness ==
    /\ block_detector.threshold = 3 /\ block_detector.window_size = 2
    /\ Len(block_detector.failed_urls_for_retry) >= 3
    /\ Len(SelectBlocking(block_detector.recent_attempts)) = 2
    /\ block_detector.recent_attempts[1].domain # block_detector.recent_attempts[2].domain
    /\ is_blocked_ret = <<[is_blocked |-> FALSE, stats |-> NoStats]>>

\* Worker w is suspended at pause wait p with the signal cleared
SuspendedAt(w, p) == w \in Workers /\ wk[w].pc = p /\ ~pause_event

\* C40: under fair scheduling no worker stays at a pause wait forever: a
\* worker waiting on the cleared signal leaves the wait, because the signal
\* is set or because its 300 s timeout expires, also when the coordinator
\* never resumes.
\* (AtWait ~> ~AtWait is []<>~AtWait; it is stated for the wait whatever the
\* signal, which covers the wait on the cleared signal.)
C40_PauseWaitsEnd ==
    \A w \in WorkerIds : \A p \in PauseWaits :
        []<>~(w \in Workers /\ wk[w].pc = p)

\* The operator is silent and the prompt has no timeout: the coordinator
\* waits at the prompt for good, a worker has gone through a pause wait on
\* its timeout and is at the driver while the signal is still cleared ...
C40_Witness ==
    /\ args.block_auto_resume = 0 /\ args.typed = {}
    /\ phase = "running" /\ coord = "prompt" /\ ~pause_event
    /\ \E w \in Workers : wk[w].pc = "retry_pause" /\ wk[w].vi = 0 /\ wk[w].attempt = 0

\* ... and before that it was suspended at the wait
C40_WitnessSuspended ==
    /\ args.block_auto_resume = 0 /\ args.typed = {}
    /\ phase = "running" /\ coord = "prompt"
    /\ \E w \in Workers : SuspendedAt(w, "pause1")
====
